---- MODULE Spec2Model ----
(***************************************************************************)
(* Saharos Kanban: the ordered entity store (StateManager), the board      *)
(* facade (SaharosKanban) with its event bus, and the pointer drag engine  *)
(* (DragAndDropManager).                                                   *)
(*                                                                         *)
(* Arrays are sequences and keep their ARRAY position: the store sorts at  *)
(* read time only, so array position is state of its own (it breaks ties   *)
(* of the stable sort).  Entity objects are mutated in place by the store, *)
(* which the model renders by rewriting the record at its array position.  *)
(***************************************************************************)
EXTENDS Integers, Sequences, FiniteSets, TLC

\* ------------------------------------------------------------- values

\* JS `undefined` of an optional ID-typed field or parameter (laneId?).
Undefined == "undefined"
\* JS `null` of a nullable ID-typed field (laneId?: ID | null).
Null == "null"
\* An omitted optional number (index?: number, order?: number).
NoNumber == -1

\* Bounds of the model: cards in the store, cards in the store of the lane
\* specification, and the largest index argument.
MaxCards == 3
MaxLaneCards == 2
MaxIndex == 3

CardIds == 1..MaxCards
\* Columns the card specifications start with, and one id no column carries.
ColumnIds == {"A", "B"}
MissingColumn == "Z"
LaneIds == {"L1"}
\* Values of a card's laneId field and of the laneId parameters.
LaneArgs == {Undefined} \cup LaneIds
Indexes == {NoNumber} \cup (0..MaxIndex)

VARIABLES
    cards,      \* StateManager.state.cards   (array of Card)
    columns,    \* StateManager.state.columns (array of Column)
    lanes,      \* StateManager.state.lanes   (array of Lane)
    last,       \* the operation that produced this state, with its result
    emitted,    \* the events EventBus.emit dispatched during that operation
    drag,       \* DragAndDropManager.state (DragState)
    docListeners, \* document-level pointermove/pointerup/pointercancel attached
    gestureLog, \* the events emitted since the pointer-down that armed from idle
    preDrag,    \* the cards array at that pointer-down
    snapshot,   \* the value a caller holds from getState(), <<>> if none
    bus,        \* an EventBus: its handlers and what its last emit did
    ui          \* options, listeners and keyboard state of the board's managers

vars == <<cards, columns, lanes, last, emitted, drag, docListeners, gestureLog, preDrag, snapshot, bus, ui>>

\* ------------------------------------------------------ StateManager

\* (a.order ?? 0) of the sort comparators.
OrderOf(e) == IF e.order = NoNumber THEN 0 ELSE e.order

\* [...xs].sort((a, b) => (a.order ?? 0) - (b.order ?? 0)) restricted to the
\* array positions S of xs: the positions in sorted order.  Array.prototype.sort
\* is stable, so equal orders keep their array order.
SortedPositions(xs, S) ==
    LET before(j, i) == \/ OrderOf(xs[j]) < OrderOf(xs[i])
                        \/ (OrderOf(xs[j]) = OrderOf(xs[i]) /\ j < i)
        rank(i) == Cardinality({j \in S : before(j, i)})
    IN  [k \in 1..Cardinality(S) |-> CHOOSE i \in S : rank(i) = k - 1]

\* The filter of getCards: array positions of the cards it keeps.
CardPositions(cs, columnId, laneId) ==
    {i \in DOMAIN cs :
        /\ (columnId # Undefined => cs[i].columnId = columnId)
        /\ (laneId # Undefined => cs[i].laneId = laneId)}

\* getCards as array positions (the objects it returns are the store's own).
GetCardsPos(cs, columnId, laneId) ==
    SortedPositions(cs, CardPositions(cs, columnId, laneId))

getCards(cs, columnId, laneId) ==
    LET p == GetCardsPos(cs, columnId, laneId)
    IN  [k \in DOMAIN p |-> cs[p[k]]]

\* A mutant of reorderCards: numbers from 1.
reorderCardsFromOne(cs, columnId, laneId) ==
    LET p == GetCardsPos(cs, columnId, laneId)
    IN  [i \in DOMAIN cs |->
            IF \E k \in DOMAIN p : p[k] = i
            THEN [cs[i] EXCEPT !.order = CHOOSE k \in DOMAIN p : p[k] = i]
            ELSE cs[i]]

\* reorderCards: card.order = index over getCards(columnId, laneId), in place.
reorderCards(cs, columnId, laneId) ==
    LET p == GetCardsPos(cs, columnId, laneId)
    IN  [i \in DOMAIN cs |->
            IF \E k \in DOMAIN p : p[k] = i
            THEN [cs[i] EXCEPT !.order = (CHOOSE k \in DOMAIN p : p[k] = i) - 1]
            ELSE cs[i]]

\* findIndex((c) => c.id === id): 0 stands for -1.
FindIndex(xs, id) ==
    IF \E i \in DOMAIN xs : xs[i].id = id
    THEN CHOOSE i \in DOMAIN xs : xs[i].id = id /\ \A j \in 1..(i - 1) : xs[j].id # id
    ELSE 0

\* splice(i, 1)
RemoveAt(xs, i) == [k \in 1..(Len(xs) - 1) |-> IF k < i THEN xs[k] ELSE xs[k + 1]]

\* addCard(card, index): the new array.
addCard(cs, card, index) ==
    LET cardsInColumn == getCards(cs, card.columnId, card.laneId)
        newCard == [card EXCEPT !.order =
                        IF index # NoNumber THEN index ELSE Len(cardsInColumn)]
        pushed == Append(cs, newCard)
    IN  IF index # NoNumber
        THEN reorderCards(pushed, card.columnId, card.laneId)
        ELSE pushed

\* removeCard(cardId): [ret, cards].
removeCard(cs, cardId) ==
    LET index == FindIndex(cs, cardId)
    IN  IF index = 0
        THEN [ret |-> FALSE, cards |-> cs]
        ELSE [ret |-> TRUE,
              cards |-> reorderCards(RemoveAt(cs, index),
                                     cs[index].columnId, cs[index].laneId)]

\* moveCard(cardId, toColumnId, toLaneId, toIndex): [ret, cards].
moveCard(cs, cardId, toColumnId, toLaneId, toIndex) ==
    LET cardIndex == FindIndex(cs, cardId)
    IN  IF cardIndex = 0
        THEN [ret |-> FALSE, cards |-> cs]
        ELSE
        LET oldColumnId == cs[cardIndex].columnId
            oldLaneId == cs[cardIndex].laneId
            newLaneId == IF toLaneId # Undefined THEN toLaneId ELSE oldLaneId
            \* toLaneId ?? card.laneId, read after the assignment
            effLaneId == IF toLaneId \in {Undefined, Null} THEN newLaneId ELSE toLaneId
            c1 == [cs EXCEPT ![cardIndex].columnId = toColumnId,
                             ![cardIndex].laneId = newLaneId]
            c2 == IF oldColumnId # toColumnId \/ oldLaneId # effLaneId
                  THEN reorderCards(reorderCards(c1, oldColumnId, oldLaneId),
                                    toColumnId, effLaneId)
                  ELSE c1
            c3 == IF toIndex # NoNumber
                  THEN reorderCards([c2 EXCEPT ![cardIndex].order = toIndex],
                                    toColumnId, effLaneId)
                  ELSE c2
        IN  [ret |-> TRUE, cards |-> c3]

\* getColumns(laneId) as array positions.
GetColumnsPos(cols, laneId) ==
    SortedPositions(cols, {i \in DOMAIN cols : laneId # Undefined => cols[i].laneId = laneId})

getColumns(cols, laneId) ==
    LET p == GetColumnsPos(cols, laneId)
    IN  [k \in DOMAIN p |-> cols[p[k]]]

\* getLanes() as array positions.
GetLanesPos(ls) == SortedPositions(ls, DOMAIN ls)

getLanes(ls) ==
    LET p == GetLanesPos(ls)
    IN  [k \in DOMAIN p |-> ls[p[k]]]

\* forEach((x, index) => x.order = index) over the sorted positions p, in place.
Renumber(xs, p) ==
    [i \in DOMAIN xs |->
        IF \E k \in DOMAIN p : p[k] = i
        THEN [xs[i] EXCEPT !.order = (CHOOSE k \in DOMAIN p : p[k] = i) - 1]
        ELSE xs[i]]

\* reorderColumns: over getColumns(), all columns whatever their lane.
reorderColumns(cols) == Renumber(cols, GetColumnsPos(cols, Undefined))

\* reorderLanes: over getLanes().
reorderLanes(ls) == Renumber(ls, GetLanesPos(ls))

\* splice(index, 0, x): an index beyond the end inserts at the end.
InsertAt(xs, index, x) ==
    LET at == IF index > Len(xs) THEN Len(xs) ELSE index
    IN  [k \in 1..(Len(xs) + 1) |->
            IF k <= at THEN xs[k] ELSE IF k = at + 1 THEN x ELSE xs[k - 1]]

\* addColumn(column, index): the new array.
addColumn(cols, column, index) ==
    LET newColumn == [column EXCEPT !.order =
                          IF index # NoNumber THEN index ELSE Len(cols)]
    IN  IF index # NoNumber
        THEN reorderColumns(InsertAt(cols, index, newColumn))
        ELSE Append(cols, newColumn)

\* updateColumn(columnId, {order}): [ret, columns]; ret FALSE stands for null.
updateColumnOrder(cols, columnId, order) ==
    LET index == FindIndex(cols, columnId)
    IN  IF index = 0
        THEN [ret |-> FALSE, columns |-> cols]
        ELSE [ret |-> TRUE, columns |-> [cols EXCEPT ![index].order = order]]

\* removeColumn(columnId): [ret, columns].
removeColumn(cols, columnId) ==
    LET index == FindIndex(cols, columnId)
    IN  IF index = 0
        THEN [ret |-> FALSE, columns |-> cols]
        ELSE [ret |-> TRUE, columns |-> reorderColumns(RemoveAt(cols, index))]

\* addLane(lane, index): the new array.
addLane(ls, lane, index) ==
    LET newLane == [lane EXCEPT !.order = IF index # NoNumber THEN index ELSE Len(ls)]
    IN  IF index # NoNumber
        THEN reorderLanes(InsertAt(ls, index, newLane))
        ELSE Append(ls, newLane)

\* updateLane(laneId, {order}): [ret, lanes]; ret FALSE stands for null.
updateLaneOrder(ls, laneId, order) ==
    LET index == FindIndex(ls, laneId)
    IN  IF index = 0
        THEN [ret |-> FALSE, lanes |-> ls]
        ELSE [ret |-> TRUE, lanes |-> [ls EXCEPT ![index].order = order]]

\* removeLane(laneId): [ret, lanes].
removeLane(ls, laneId) ==
    LET index == FindIndex(ls, laneId)
    IN  IF index = 0
        THEN [ret |-> FALSE, lanes |-> ls]
        ELSE [ret |-> TRUE, lanes |-> reorderLanes(RemoveAt(ls, index))]

\* updateCard(cardId, {columnId?}): [ret, cards]; ret FALSE stands for null.
\* columnId: patch.columnId ?? currentCard.columnId.
updateCardColumn(cs, cardId, columnId) ==
    LET index == FindIndex(cs, cardId)
    IN  IF index = 0
        THEN [ret |-> FALSE, cards |-> cs]
        ELSE [ret |-> TRUE,
              cards |-> [cs EXCEPT ![index].columnId =
                            IF columnId \in {Undefined, Null} THEN @ ELSE columnId]]

\* ------------------------------------------------------------ helpers

\* The sibling groups of cards: (columnId, laneId) pairs that occur.
CardGroups(cs) == {<<cs[i].columnId, cs[i].laneId>> : i \in DOMAIN cs}

\* The cards of one sibling group, by array position.
GroupPositions(cs, g) ==
    {i \in DOMAIN cs : cs[i].columnId = g[1] /\ cs[i].laneId = g[2]}

\* The ids of a sequence of entities.
Ids(xs) == [k \in DOMAIN xs |-> xs[k].id]

\* A sequence without the entries that carry id.
Without(s, id) ==
    LET keep == {k \in DOMAIN s : s[k] # id}
        nth(n) == CHOOSE k \in keep : Cardinality({j \in keep : j < k}) = n - 1
    IN  [n \in 1..Cardinality(keep) |-> s[nth(n)]]

\* Position of id in a sequence of ids (0 when absent).
PosOf(s, id) == IF \E k \in DOMAIN s : s[k] = id
                THEN CHOOSE k \in DOMAIN s : s[k] = id
                ELSE 0

NoOp == [op |-> "init", id |-> 0, columnId |-> Undefined, laneId |-> Undefined,
         index |-> NoNumber, ret |-> FALSE]

\* getInitialState(): null is Null for the columns, the empty sequence for the card.
\* draggedCard holds the id of the store's card object (the engine keeps the very
\* object getCard returned); sourceColumn and targetColumn hold column ids.
InitialDragState ==
    [isDragging |-> FALSE, draggedCard |-> <<>>, mirrorElement |-> FALSE,
     sourceColumn |-> Null, targetColumn |-> Null, placeholder |-> FALSE,
     startX |-> 0, startY |-> 0, currentX |-> 0, currentY |-> 0]

\* Bound of the event bus specification: handler functions.
MaxHandlers == 2

Fns == 1..MaxHandlers

\* new EventBus(): no handlers.  calls and registered are the observer's record
\* per handler function: invocations since its latest registration, and how
\* that registration was made; errors, raised, event and log describe the last
\* emit: errors reported, whether an error left it, its event, and the handler
\* functions in the order it invoked them; seen is the payload each subscriber
\* of card:drag:end read during the last emit of that event; subscribed is the
\* observer's list of the functions subscribed through BusOn and BusOnce, in
\* the order of those calls.
EmptyBus ==
    [handlers |-> <<>>,
     calls |-> [fn \in Fns |-> 0],
     registered |-> [fn \in Fns |-> [kind |-> "none", behaviour |-> "return"]],
     errors |-> 0,
     raised |-> FALSE,
     event |-> "none",
     log |-> <<>>,
     seen |-> <<>>,
     subscribed |-> <<>>]

\* The board's managers after new SaharosKanban(container, options) with the
\* default options: options.readonly and options.draggable of the board, the
\* readonly and draggable fields of the DragAndDropManager, and whether its
\* pointerdown listener is attached to the container (attachEventListeners).
DefaultUi ==
    [readonly |-> FALSE, draggable |-> TRUE,
     dndReadonly |-> FALSE, dndDraggable |-> TRUE,
     listening |-> TRUE,
     enhanced |-> FALSE, domFocus |-> FALSE,
     currentFocus |-> <<>>, pickingCard |-> <<>>,
     insertIndex |-> NoNumber,
     wipWarning |-> Null, wipExceeded |-> {},
     mirrors |-> 0, dragging |-> {}, hover |-> {}, destroyed |-> FALSE]

\* The drag engine and the event log at rest.
Quiet ==
    /\ emitted = <<>>
    /\ drag = InitialDragState
    /\ docListeners = FALSE
    /\ gestureLog = <<>>
    /\ preDrag = <<>>
    /\ snapshot = <<>>
    /\ bus = EmptyBus
    /\ ui = DefaultUi

NoDrag == UNCHANGED <<emitted, drag, docListeners, gestureLog, preDrag, snapshot, bus, ui>>

\* --------------------------------------------- store specification

InitColumns == <<[id |-> "A", laneId |-> Undefined, order |-> 0],
                 [id |-> "B", laneId |-> Undefined, order |-> 1]>>

StoreInit ==
    /\ cards = <<>>
    /\ columns = InitColumns
    /\ lanes = <<>>
    /\ last = NoOp
    /\ Quiet

\* stateManager.addCard(card, index) with a fresh id.
AddCardStep(maxCards, laneArgs) ==
    \E id \in 1..maxCards, columnId \in ColumnIds, laneId \in laneArgs, index \in Indexes :
        /\ Len(cards) < maxCards
        /\ FindIndex(cards, id) = 0
        /\ cards' = addCard(cards, [id |-> id, columnId |-> columnId,
                                    laneId |-> laneId, order |-> NoNumber], index)
        /\ last' = [op |-> "addCard", id |-> id, columnId |-> columnId,
                    laneId |-> laneId, index |-> index, ret |-> TRUE]
        /\ UNCHANGED <<columns, lanes>> /\ NoDrag

\* stateManager.removeCard(cardId).
RemoveCardStep(maxCards) ==
    \E id \in 1..maxCards :
        LET r == removeCard(cards, id)
        IN  /\ cards' = r.cards
            /\ last' = [NoOp EXCEPT !.op = "removeCard", !.id = id, !.ret = r.ret]
            /\ UNCHANGED <<columns, lanes>> /\ NoDrag

\* stateManager.moveCard(cardId, toColumnId, toLaneId, toIndex).
MoveCardStep(maxCards, laneArgs) ==
    \E id \in 1..maxCards, columnId \in ColumnIds \cup {MissingColumn},
       laneId \in laneArgs, index \in Indexes :
        LET r == moveCard(cards, id, columnId, laneId, index)
        IN  /\ cards' = r.cards
            /\ last' = [op |-> "moveCard", id |-> id, columnId |-> columnId,
                        laneId |-> laneId, index |-> index, ret |-> r.ret]
            /\ UNCHANGED <<columns, lanes>> /\ NoDrag

\* A board without lanes: no card carries a laneId.
StoreAddCard == AddCardStep(MaxCards, {Undefined})
StoreRemoveCard == RemoveCardStep(MaxCards)
StoreMoveCard == MoveCardStep(MaxCards, {Undefined})

StoreNext == StoreAddCard \/ StoreRemoveCard \/ StoreMoveCard

SpecStore == StoreInit /\ [][StoreNext]_vars

\* A board with one lane, cards with and without a laneId.
LaneInit ==
    /\ cards = <<>>
    /\ columns = InitColumns
    /\ lanes = <<[id |-> "L1", order |-> 0]>>
    /\ last = NoOp
    /\ Quiet

LaneAddCard == AddCardStep(MaxLaneCards, LaneArgs)
LaneRemoveCard == RemoveCardStep(MaxLaneCards)
LaneMoveCard == MoveCardStep(MaxLaneCards, LaneArgs)

LaneNext == LaneAddCard \/ LaneRemoveCard \/ LaneMoveCard

SpecLanes == LaneInit /\ [][LaneNext]_vars

\* ------------------------------------------------------------ claims

\* order values of every sibling group g of cs are exactly 0..n-1.
DenseCards(cs) ==
    \A g \in CardGroups(cs) :
        LET P == GroupPositions(cs, g)
        IN  /\ {cs[i].order : i \in P} = 0..(Cardinality(P) - 1)
            /\ \A i, j \in P : i # j => cs[i].order # cs[j].order

\* C1: after any sequence of addCard, removeCard and moveCard every card
\* sibling group (same column and lane) has order values exactly 0..n-1,
\* without gap or duplicate.
C1_OrderDensity == DenseCards(cards)

ColumnExists(columnId) == FindIndex(columns, columnId) # 0

\* C2: moveCard(id, column, lane?, index?) on an existing card and an existing
\* column puts the card at position index of getCards(column, lane) when
\* 0 <= index <= number of other cards there, appends it when index is omitted
\* and the destination group differs from the card's group, and in both cases
\* keeps the relative order of the other cards of the destination.
C2_MovePlacesCard ==
    [][ (last'.op = "moveCard" /\ last'.ret /\ ColumnExists(last'.columnId)) =>
        LET id == last'.id
            old == cards[FindIndex(cards, id)]
            before == Ids(getCards(cards, last'.columnId, last'.laneId))
            after == Ids(getCards(cards', last'.columnId, last'.laneId))
            others == Without(before, id)
            sameGroup == /\ old.columnId = last'.columnId
                         /\ last'.laneId \in {Undefined, old.laneId}
            byIndex == last'.index # NoNumber /\ last'.index <= Len(others)
            appended == last'.index = NoNumber /\ ~sameGroup
        IN  /\ byIndex => PosOf(after, id) = last'.index + 1
            /\ appended => PosOf(after, id) = Len(after)
            /\ (byIndex \/ appended) => Without(after, id) = others
      ]_vars

\* C3: from every reachable store, for a card c at position i of column A and
\* another column B, moveCard(c, B) then moveCard(c, A, original lane, i)
\* restores getCards(A) (ids, with orders 0..n-1) and leaves getCards(B) as it was.
C3_MoveRoundTrip ==
    \A A \in ColumnIds : \A B \in ColumnIds \ {A} :
        LET seqA == getCards(cards, A, Undefined)
        IN  \A i \in DOMAIN seqA :
                LET c == seqA[i]
                    there == moveCard(cards, c.id, B, Undefined, NoNumber).cards
                    back == moveCard(there, c.id, A, c.laneId, i - 1).cards
                    seqA2 == getCards(back, A, Undefined)
                IN  /\ Ids(seqA2) = Ids(seqA)
                    /\ \A k \in DOMAIN seqA2 : seqA2[k].order = k - 1
                    /\ Ids(getCards(back, B, Undefined)) = Ids(getCards(cards, B, Undefined))

\* C8: the store's moveCard returns false and leaves every card untouched when
\* the card or the destination column does not exist, and returns true only
\* when both exist.
C8_MoveRejectsMissing ==
    [][ last'.op = "moveCard" =>
        LET both == FindIndex(cards, last'.id) # 0 /\ ColumnExists(last'.columnId)
        IN  /\ last'.ret = both
            /\ ~both => cards' = cards
      ]_vars

\* ------------------------------------------------------ SaharosKanban

\* Bounds of the board specifications: cards on the board, largest index
\* argument of the column and of the lane operations.
MaxBoardCards == 2
MaxColumnIndex == 2
MaxLaneIndex == 1

\* Column and lane ids of the column specification.
BoardColumnIds == {"A", "B", "C"}
BoardLaneIds == {"L1", "L2"}

\* The handler setupDragEventHandlers subscribes to card:drag:end, run by
\* EventBus.emit inside its try/catch: [cards, emitted].  card is [id, laneId];
\* from and to are column ids, Null for a null column (from.id then throws and
\* emit swallows the error).
DragEndHandler(cs, card, from, to) ==
    IF from = Null \/ from = to
    THEN [cards |-> cs, emitted |-> <<>>]
    ELSE LET r == moveCard(cs, card.id, to, card.laneId, NoNumber)
         IN  IF r.ret
             THEN [cards |-> r.cards, emitted |-> <<"state:change">>]
             ELSE [cards |-> cs, emitted |-> <<>>]

\* A mutant of boardMoveCard: a successful move announces nothing.
boardMoveCardSilent(cs, cols, cardId, columnId, laneId, index) ==
    IF FindIndex(cs, cardId) = 0 \/ FindIndex(cols, columnId) = 0
    THEN [ret |-> FALSE, cards |-> cs, emitted |-> <<>>]
    ELSE [ret |-> TRUE, cards |-> moveCard(cs, cardId, columnId, laneId, index).cards,
          emitted |-> <<>>]

\* SaharosKanban.moveCard(cardId, {columnId, laneId, index}) called through the
\* API (no opts.cause): [ret, cards, emitted].
boardMoveCard(cs, cols, cardId, columnId, laneId, index) ==
    LET ci == FindIndex(cs, cardId)
    IN  IF ci = 0 \/ FindIndex(cols, columnId) = 0
        THEN [ret |-> FALSE, cards |-> cs, emitted |-> <<>>]
        ELSE
        LET fromColumn == IF FindIndex(cols, cs[ci].columnId) = 0
                          THEN Null ELSE cs[ci].columnId
            r == moveCard(cs, cardId, columnId, laneId, index)
            moved == r.cards[FindIndex(r.cards, cardId)]
            h == DragEndHandler(r.cards, [id |-> cardId, laneId |-> moved.laneId],
                                fromColumn, columnId)
        IN  IF r.ret
            THEN [ret |-> TRUE, cards |-> h.cards,
                  emitted |-> <<"card:drag:end">> \o h.emitted \o <<"state:change">>]
            ELSE [ret |-> FALSE, cards |-> cs, emitted |-> <<>>]

\* What a facade method emits around a store call that succeeded (ok) or not.
\* A mutant of Announce: the events are emitted whatever the store returned.
AnnounceAlways(ok, event) == <<event, "state:change">>

Announce(ok, event) == IF ok THEN <<event, "state:change">> ELSE <<>>

\* board.addCard(card, {index}) with a fresh id.
BoardAddCard(maxCards, columnArgs, laneArgs, indexes) ==
    \E id \in 1..maxCards, columnId \in columnArgs, laneId \in laneArgs, index \in indexes :
        /\ Len(cards) < maxCards
        /\ FindIndex(cards, id) = 0
        /\ cards' = addCard(cards, [id |-> id, columnId |-> columnId,
                                    laneId |-> laneId, order |-> NoNumber], index)
        /\ last' = [op |-> "addCard", id |-> id, columnId |-> columnId,
                    laneId |-> laneId, index |-> index, ret |-> TRUE]
        /\ emitted' = Announce(TRUE, "card:add")
        /\ UNCHANGED <<columns, lanes, drag, docListeners, gestureLog, preDrag, snapshot, bus, ui>>

\* board.updateCard(cardId, {columnId}).
BoardUpdateCard(maxCards, columnArgs) ==
    \E id \in 1..maxCards, columnId \in columnArgs :
        LET r == updateCardColumn(cards, id, columnId)
        IN  /\ cards' = r.cards
            /\ last' = [NoOp EXCEPT !.op = "updateCard", !.id = id,
                                    !.columnId = columnId, !.ret = r.ret]
            /\ emitted' = Announce(r.ret, "card:update")
            /\ UNCHANGED <<columns, lanes, drag, docListeners, gestureLog, preDrag, snapshot, bus, ui>>

\* board.removeCard(cardId).
BoardRemoveCard(maxCards) ==
    \E id \in 1..maxCards :
        LET r == removeCard(cards, id)
        IN  /\ cards' = r.cards
            /\ last' = [NoOp EXCEPT !.op = "removeCard", !.id = id, !.ret = r.ret]
            /\ emitted' = Announce(r.ret, "card:remove")
            /\ UNCHANGED <<columns, lanes, drag, docListeners, gestureLog, preDrag, snapshot, bus, ui>>

\* board.moveCard(cardId, {columnId, laneId, index}).
BoardMoveCard(maxCards, columnArgs, laneArgs, indexes) ==
    \E id \in 1..maxCards, columnId \in columnArgs, laneId \in laneArgs, index \in indexes :
        LET r == boardMoveCard(cards, columns, id, columnId, laneId, index)
        IN  /\ cards' = r.cards
            /\ last' = [op |-> "moveCard", id |-> id, columnId |-> columnId,
                        laneId |-> laneId, index |-> index, ret |-> r.ret]
            /\ emitted' = r.emitted
            /\ UNCHANGED <<columns, lanes, drag, docListeners, gestureLog, preDrag, snapshot, bus, ui>>

\* board.addColumn(column, {index}) with a fresh id.
BoardAddColumn(columnIds, laneArgs, indexes) ==
    \E columnId \in columnIds, laneId \in laneArgs, index \in indexes :
        /\ FindIndex(columns, columnId) = 0
        /\ columns' = addColumn(columns, [id |-> columnId, laneId |-> laneId,
                                          order |-> NoNumber], index)
        /\ last' = [NoOp EXCEPT !.op = "addColumn", !.columnId = columnId,
                                !.laneId = laneId, !.index = index, !.ret = TRUE]
        /\ emitted' = Announce(TRUE, "column:add")
        /\ UNCHANGED <<cards, lanes, drag, docListeners, gestureLog, preDrag, snapshot, bus, ui>>

\* board.removeColumn(columnId).
BoardRemoveColumn(columnIds) ==
    \E columnId \in columnIds :
        LET r == removeColumn(columns, columnId)
        IN  /\ columns' = r.columns
            /\ last' = [NoOp EXCEPT !.op = "removeColumn", !.columnId = columnId,
                                    !.ret = r.ret]
            /\ emitted' = Announce(r.ret, "column:remove")
            /\ UNCHANGED <<cards, lanes, drag, docListeners, gestureLog, preDrag, snapshot, bus, ui>>

\* board.moveColumn(columnId, toIndex): getColumn, then updateColumn({order}).
BoardMoveColumn(columnIds, toIndexes) ==
    \E columnId \in columnIds, toIndex \in toIndexes :
        LET r == updateColumnOrder(columns, columnId, toIndex)
        IN  /\ columns' = r.columns
            /\ last' = [NoOp EXCEPT !.op = "moveColumn", !.columnId = columnId,
                                    !.index = toIndex, !.ret = r.ret]
            /\ emitted' = Announce(r.ret, "column:move")
            /\ UNCHANGED <<cards, lanes, drag, docListeners, gestureLog, preDrag, snapshot, bus, ui>>

\* board.addLane(lane, {index}) with a fresh id.
BoardAddLane(laneIds, indexes) ==
    \E laneId \in laneIds, index \in indexes :
        /\ FindIndex(lanes, laneId) = 0
        /\ lanes' = addLane(lanes, [id |-> laneId, order |-> NoNumber], index)
        /\ last' = [NoOp EXCEPT !.op = "addLane", !.laneId = laneId,
                                !.index = index, !.ret = TRUE]
        /\ emitted' = Announce(TRUE, "lane:add")
        /\ UNCHANGED <<cards, columns, drag, docListeners, gestureLog, preDrag, snapshot, bus, ui>>

\* board.removeLane(laneId).
BoardRemoveLane(laneIds) ==
    \E laneId \in laneIds :
        LET r == removeLane(lanes, laneId)
        IN  /\ lanes' = r.lanes
            /\ last' = [NoOp EXCEPT !.op = "removeLane", !.laneId = laneId, !.ret = r.ret]
            /\ emitted' = Announce(r.ret, "lane:remove")
            /\ UNCHANGED <<cards, columns, drag, docListeners, gestureLog, preDrag, snapshot, bus, ui>>

\* board.moveLane(laneId, toIndex): getLane, then updateLane({order}).
BoardMoveLane(laneIds, toIndexes) ==
    \E laneId \in laneIds, toIndex \in toIndexes :
        LET r == updateLaneOrder(lanes, laneId, toIndex)
        IN  /\ lanes' = r.lanes
            /\ last' = [NoOp EXCEPT !.op = "moveLane", !.laneId = laneId,
                                    !.index = toIndex, !.ret = r.ret]
            /\ emitted' = Announce(r.ret, "lane:move")
            /\ UNCHANGED <<cards, columns, drag, docListeners, gestureLog, preDrag, snapshot, bus, ui>>

\* ------------------------------------- columns and lanes specification

ColumnIndexes == {NoNumber} \cup (0..MaxColumnIndex)
LaneIndexes == {NoNumber} \cup (0..MaxLaneIndex)

ColAddColumn == BoardAddColumn(BoardColumnIds, {Undefined}, ColumnIndexes)
ColRemoveColumn == BoardRemoveColumn(BoardColumnIds)
ColMoveColumn == BoardMoveColumn(BoardColumnIds, 0..MaxColumnIndex)
ColAddLane == BoardAddLane(BoardLaneIds, LaneIndexes)
ColRemoveLane == BoardRemoveLane(BoardLaneIds)
ColMoveLane == BoardMoveLane(BoardLaneIds, 0..MaxLaneIndex)

ColumnsNext ==
    \/ ColAddColumn \/ ColRemoveColumn \/ ColMoveColumn
    \/ ColAddLane \/ ColRemoveLane \/ ColMoveLane

SpecColumns == StoreInit /\ [][ColumnsNext]_vars

\* order values of xs are exactly 0..n-1.
DenseOrders(xs) ==
    /\ {xs[i].order : i \in DOMAIN xs} = 0..(Len(xs) - 1)
    /\ \A i, j \in DOMAIN xs : i # j => xs[i].order # xs[j].order

\* C9: after any sequence of addColumn, removeColumn, moveColumn (and addLane,
\* removeLane, moveLane) the order values of the columns (one sibling group:
\* no column carries a lane here) and of the lanes are exactly 0..n-1.
C9_ColumnLaneDensity == DenseOrders(columns) /\ DenseOrders(lanes)

\* C10: moveColumn(id, toIndex) / moveLane(id, toIndex) with 0 <= toIndex < n on
\* an existing entity returns true, puts it at position toIndex of getColumns()
\* / getLanes() and keeps the relative order of the others; on an unknown id
\* it returns false and changes nothing.
C10_MoveColumnLanePlaces ==
    [][ /\ (last'.op = "moveColumn" /\ last'.index < Len(columns)) =>
            LET id == last'.columnId
                before == Ids(getColumns(columns, Undefined))
                after == Ids(getColumns(columns', Undefined))
            IN  IF FindIndex(columns, id) # 0
                THEN /\ last'.ret
                     /\ PosOf(after, id) = last'.index + 1
                     /\ Without(after, id) = Without(before, id)
                ELSE ~last'.ret /\ columns' = columns
        /\ (last'.op = "moveLane" /\ last'.index < Len(lanes)) =>
            LET id == last'.laneId
                before == Ids(getLanes(lanes))
                after == Ids(getLanes(lanes'))
            IN  IF FindIndex(lanes, id) # 0
                THEN /\ last'.ret
                     /\ PosOf(after, id) = last'.index + 1
                     /\ Without(after, id) = Without(before, id)
                ELSE ~last'.ret /\ lanes' = lanes
      ]_vars

\* ----------------------------------------------- board specification

\* A board with lane L1 holding the columns A and B.
BoardInit ==
    /\ cards = <<>>
    /\ columns = <<[id |-> "A", laneId |-> "L1", order |-> 0],
                   [id |-> "B", laneId |-> "L1", order |-> 1]>>
    /\ lanes = <<[id |-> "L1", order |-> 0]>>
    /\ last = NoOp
    /\ Quiet

ApiAddCard == BoardAddCard(MaxBoardCards, ColumnIds \cup {MissingColumn}, LaneIds,
                           {NoNumber, 0})
ApiUpdateCard == BoardUpdateCard(MaxBoardCards, {Undefined, "B", MissingColumn})
ApiRemoveCard == BoardRemoveCard(MaxBoardCards)
ApiMoveCard == BoardMoveCard(MaxBoardCards, ColumnIds \cup {MissingColumn},
                             {Undefined}, {NoNumber, 0})
ApiAddColumn == BoardAddColumn(ColumnIds, LaneIds, {NoNumber})
ApiRemoveColumn == BoardRemoveColumn(ColumnIds)
ApiMoveColumn == BoardMoveColumn(ColumnIds, {0})
ApiAddLane == BoardAddLane(LaneIds, {NoNumber})
ApiRemoveLane == BoardRemoveLane(LaneIds)
ApiMoveLane == BoardMoveLane(LaneIds, {0})

BoardNext ==
    \/ ApiAddCard \/ ApiUpdateCard \/ ApiRemoveCard \/ ApiMoveCard
    \/ ApiAddColumn \/ ApiRemoveColumn \/ ApiMoveColumn
    \/ ApiAddLane \/ ApiRemoveLane \/ ApiMoveLane

SpecBoard == BoardInit /\ [][BoardNext]_vars

\* How often event occurs in a sequence of events.
Count(events, event) == Cardinality({k \in DOMAIN events : events[k] = event})

\* C6: each successful public mutating operation emits state:change exactly
\* once, and a call that fails emits none.
C6_OneStateChange ==
    last.op # "init" =>
        Count(emitted, "state:change") = (IF last.ret THEN 1 ELSE 0)

\* C7: every card's columnId names a column of the store and every column's
\* laneId, when set, names a lane of the store.
C7_ReferentialIntegrity ==
    /\ \A i \in DOMAIN cards : FindIndex(columns, cards[i].columnId) # 0
    /\ \A i \in DOMAIN columns :
           columns[i].laneId \notin {Undefined, Null} =>
               FindIndex(lanes, columns[i].laneId) # 0

\* ------------------------------------------------- DragAndDropManager

\* options.pointerTolerance ?? 5
Tolerance == 5

\* Bounds of the drag specification: cards on the board, and the length of
\* the event log of one gesture beyond which no pointer-move is taken.
MaxDragCards == 2
MaxLog == 4

\* clientX and clientY of the pointer events: at, within and beyond tolerance
\* of each other.
XCoords == {0, Tolerance, Tolerance + 1}
YCoords == {0, Tolerance + 1}

Abs(n) == IF n < 0 THEN 0 - n ELSE n

\* The events the drag engine itself emits.
DragEvents == {"card:drag:start", "card:drag:over", "card:drag:end", "card:drag:cancel"}

\* card.laneId read through the engine's reference to the store's card object.
LaneOfDragged(cs, d) ==
    LET i == FindIndex(cs, d.draggedCard[1])
    IN  IF i = 0 THEN Undefined ELSE cs[i].laneId

\* handlePointerDown on the element of card cardId at (x, y): [drag, doc].
\* The data-card-id attribute text of a number id parses back to that number.
handlePointerDown(d, doc, cs, cols, cardId, x, y) ==
    LET ci == FindIndex(cs, cardId)
        columnId == IF ci = 0 THEN Undefined ELSE cs[ci].columnId
    IN  IF ci = 0 \/ FindIndex(cols, columnId) = 0
        THEN [drag |-> d, doc |-> doc]
        ELSE [drag |-> [isDragging |-> FALSE, draggedCard |-> <<cardId>>,
                        mirrorElement |-> FALSE, sourceColumn |-> columnId,
                        targetColumn |-> columnId, placeholder |-> FALSE,
                        startX |-> x, startY |-> y, currentX |-> x, currentY |-> y],
              doc |-> TRUE]

\* A mutant of handlePointerMove: the displacement is measured as a distance.
handlePointerMoveEuclidean(d, x, y, hit) ==
    IF d.draggedCard = <<>>
    THEN [drag |-> d, emitted |-> <<>>]
    ELSE
    LET d1 == [d EXCEPT !.currentX = x, !.currentY = y]
        dx == Abs(x - d.startX)
        dy == Abs(y - d.startY)
        starts == ~d.isDragging /\ dx * dx + dy * dy > Tolerance * Tolerance
        d2 == IF starts
              THEN [d1 EXCEPT !.isDragging = TRUE, !.mirrorElement = TRUE,
                              !.placeholder = TRUE]
              ELSE d1
        over == d2.isDragging /\ d2.mirrorElement /\ hit # Null
        d3 == IF over /\ d2.placeholder THEN [d2 EXCEPT !.targetColumn = hit] ELSE d2
    IN  [drag |-> d3,
         emitted |-> (IF starts THEN <<"card:drag:start">> ELSE <<>>)
                     \o (IF over /\ d3.targetColumn # Null
                         THEN <<"card:drag:over">> ELSE <<>>)]

\* A mutant of handlePointerMove: a move over no column clears the target.
handlePointerMoveClears(d, x, y, hit) ==
    IF d.draggedCard = <<>>
    THEN [drag |-> d, emitted |-> <<>>]
    ELSE
    LET d1 == [d EXCEPT !.currentX = x, !.currentY = y]
        dx == Abs(x - d.startX)
        dy == Abs(y - d.startY)
        starts == ~d.isDragging /\ (dx > Tolerance \/ dy > Tolerance)
        d2 == IF starts
              THEN [d1 EXCEPT !.isDragging = TRUE, !.mirrorElement = TRUE,
                              !.placeholder = TRUE]
              ELSE d1
        d3 == IF d2.isDragging THEN [d2 EXCEPT !.targetColumn = hit] ELSE d2
    IN  [drag |-> d3,
         emitted |-> (IF starts THEN <<"card:drag:start">> ELSE <<>>)
                     \o (IF d2.isDragging /\ hit # Null
                         THEN <<"card:drag:over">> ELSE <<>>)]

\* handlePointerMove at (x, y), hit being the id of the column findDropTarget
\* resolves under the pointer (Null: none): [drag, emitted].  Runs startDrag
\* (createMirror, createPlaceholder, emit card:drag:start) and updateDrag
\* (updateDropTarget, emit card:drag:over).
handlePointerMove(d, x, y, hit) ==
    IF d.draggedCard = <<>>
    THEN [drag |-> d, emitted |-> <<>>]
    ELSE
    LET d1 == [d EXCEPT !.currentX = x, !.currentY = y]
        dx == Abs(x - d.startX)
        dy == Abs(y - d.startY)
        starts == ~d.isDragging /\ (dx > Tolerance \/ dy > Tolerance)
        d2 == IF starts
              THEN [d1 EXCEPT !.isDragging = TRUE, !.mirrorElement = TRUE,
                              !.placeholder = TRUE]
              ELSE d1
        over == d2.isDragging /\ d2.mirrorElement /\ hit # Null
        d3 == IF over /\ d2.placeholder THEN [d2 EXCEPT !.targetColumn = hit] ELSE d2
    IN  [drag |-> d3,
         emitted |-> (IF starts THEN <<"card:drag:start">> ELSE <<>>)
                     \o (IF over /\ d3.targetColumn # Null
                         THEN <<"card:drag:over">> ELSE <<>>)]

\* endDrag(cancelled), cleanup included: [drag, doc, cards, emitted].
endDrag(d, cs, cancelled) ==
    IF d.draggedCard = <<>> \/ d.sourceColumn = Null
    THEN [drag |-> InitialDragState, doc |-> FALSE, cards |-> cs, emitted |-> <<>>]
    ELSE IF cancelled
    THEN [drag |-> InitialDragState, doc |-> FALSE, cards |-> cs,
          emitted |-> <<"card:drag:cancel">>]
    ELSE LET to == IF d.targetColumn # Null THEN d.targetColumn ELSE d.sourceColumn
             h == DragEndHandler(cs, [id |-> d.draggedCard[1],
                                      laneId |-> LaneOfDragged(cs, d)],
                                 d.sourceColumn, to)
         IN  [drag |-> InitialDragState, doc |-> FALSE, cards |-> h.cards,
              emitted |-> <<"card:drag:end">> \o h.emitted]

\* A mutant of handlePointerUp: every pointer-up is a drop.
handlePointerUpDrops(d, cs) == endDrag(d, cs, FALSE)

\* handlePointerUp: [drag, doc, cards, emitted].
handlePointerUp(d, cs) == endDrag(d, cs, ~d.isDragging)

\* A mutant of handlePointerCancel: a cancelled drag is committed.
handlePointerCancelCommits(d, doc, cs) ==
    IF d.isDragging
    THEN endDrag(d, cs, FALSE)
    ELSE [drag |-> d, doc |-> doc, cards |-> cs, emitted |-> <<>>]

\* handlePointerCancel: [drag, doc, cards, emitted].
handlePointerCancel(d, doc, cs) ==
    IF d.isDragging
    THEN endDrag(d, cs, TRUE)
    ELSE [drag |-> d, doc |-> doc, cards |-> cs, emitted |-> <<>>]

\* ------------------------------------------------ drag specification

\* A board without lanes: columns A and B, the cards 1..MaxDragCards in A.
DragInit ==
    /\ cards = [i \in 1..MaxDragCards |->
                   [id |-> i, columnId |-> "A", laneId |-> Undefined, order |-> i - 1]]
    /\ columns = InitColumns
    /\ lanes = <<>>
    /\ last = NoOp
    /\ Quiet

Idle == drag.draggedCard = <<>>

\* renderBoard: the <<lane id, column id>> places where an element is rendered
\* for card (no lanes: one row of all the columns, the lane being undefined).
RenderedIn(card, cols, ls) ==
    IF ls = <<>>
    THEN {<<Undefined, cols[c].id>> : c \in {c \in DOMAIN cols : cols[c].id = card.columnId}}
    ELSE {<<ls[l].id, cols[c].id>> :
            <<l, c>> \in {p \in (DOMAIN ls) \X (DOMAIN cols) :
                             /\ cols[p[2]].laneId = ls[p[1]].id
                             /\ card.columnId = cols[p[2]].id
                             /\ card.laneId = ls[p[1]].id}}

\* pointerdown on a rendered card (the container's listener).
PointerDown ==
    \E i \in DOMAIN cards, x \in XCoords, y \in YCoords :
        LET r == handlePointerDown(drag, docListeners, cards, columns, cards[i].id, x, y)
        IN  /\ ui.listening
            /\ RenderedIn(cards[i], columns, lanes) # {}
            /\ drag' = r.drag
            /\ docListeners' = r.doc
            /\ emitted' = <<>>
            /\ gestureLog' = IF Idle THEN <<>> ELSE gestureLog
            /\ preDrag' = IF Idle THEN <<cards, columns, lanes>> ELSE preDrag
            /\ last' = [NoOp EXCEPT !.op = "pointerdown", !.id = cards[i].id,
                                    !.ret = ~Idle]
            /\ UNCHANGED <<cards, columns, lanes, snapshot, bus, ui>>

\* pointermove (document listener), over column hit or over no column.
PointerMove ==
    \E x \in XCoords, y \in YCoords, hit \in {Null} \cup {columns[i].id : i \in DOMAIN columns} :
        LET r == handlePointerMove(drag, x, y, hit)
        IN  /\ docListeners
            /\ Len(gestureLog) < MaxLog
            /\ drag' = r.drag
            /\ emitted' = r.emitted
            /\ gestureLog' = gestureLog \o r.emitted
            /\ last' = [NoOp EXCEPT !.op = "pointermove", !.ret = drag.isDragging]
            /\ UNCHANGED <<cards, columns, lanes, docListeners, preDrag, snapshot, bus, ui>>

\* pointerup (document listener).
PointerUp ==
    LET r == handlePointerUp(drag, cards)
    IN  /\ docListeners
        /\ drag' = r.drag
        /\ docListeners' = r.doc
        /\ cards' = r.cards
        /\ emitted' = r.emitted
        /\ gestureLog' = gestureLog \o r.emitted
        /\ last' = [NoOp EXCEPT !.op = "pointerup", !.ret = drag.isDragging]
        /\ UNCHANGED <<columns, lanes, preDrag, snapshot, bus, ui>>

\* pointercancel (document listener).
PointerCancel ==
    LET r == handlePointerCancel(drag, docListeners, cards)
    IN  /\ docListeners
        /\ drag' = r.drag
        /\ docListeners' = r.doc
        /\ cards' = r.cards
        /\ emitted' = r.emitted
        /\ gestureLog' = gestureLog \o r.emitted
        /\ last' = [NoOp EXCEPT !.op = "pointercancel", !.ret = drag.isDragging]
        /\ UNCHANGED <<columns, lanes, preDrag, snapshot, bus, ui>>

DragNext == PointerDown \/ PointerMove \/ PointerUp \/ PointerCancel

SpecDrag == DragInit /\ [][DragNext]_vars

\* The drag engine's own events of the current gesture, in order.
EngineLog ==
    LET IsDragEvent(e) == e \in DragEvents
    IN  SelectSeq(gestureLog, IsDragEvent)

\* C4: for every gesture, from the pointer-down that arms it until the machine
\* is idle again, the engine emits card:drag:start at most once (first, and only
\* when tolerance was exceeded), then card:drag:over any number of times, then
\* exactly one of card:drag:end or card:drag:cancel.
C4_GestureOrdering ==
    LET log == EngineLog
        terminal == {"card:drag:end", "card:drag:cancel"}
    IN  /\ \A k \in DOMAIN log : log[k] = "card:drag:start" => k = 1
        /\ \A k \in DOMAIN log : log[k] \in terminal => k = Len(log)
        /\ (Idle /\ last.op # "init") => (Len(log) > 0 /\ log[Len(log)] \in terminal)
        /\ ~Idle => \A k \in DOMAIN log : log[k] \notin terminal
        /\ Count(emitted, "card:drag:start") > 0 =>
               \/ Abs(drag.currentX - drag.startX) > Tolerance
               \/ Abs(drag.currentY - drag.startY) > Tolerance

\* C5: a gesture that reached the dragging state and ends by pointer-cancel
\* leaves the store as it was before the pointer-down, and emits neither
\* card:drag:end nor state:change.
C5_CancelPurity ==
    (last.op = "pointercancel" /\ last.ret) =>
        /\ <<cards, columns, lanes>> = preDrag
        /\ Count(gestureLog, "card:drag:end") = 0
        /\ Count(gestureLog, "state:change") = 0
        /\ Idle

\* A drag over the other column, with drag-over announced, was cancelled.
C5_Witness ==
    /\ last.op = "pointercancel" /\ last.ret
    /\ Count(gestureLog, "card:drag:over") > 0
    /\ gestureLog[Len(gestureLog)] = "card:drag:cancel"
    /\ Len(cards) > 0

\* ------------------------------------------------------------ addCard

\* C11: addCard(card, index) with 0 <= index <= n on a dense store puts the card
\* at position index of its sibling group with order index and shifts the cards
\* behind it; addCard(card) appends with order n; no other group is affected.
C11_AddCardPlaces ==
    [][ (last'.op = "addCard" /\ DenseCards(cards)) =>
        LET id == last'.id
            before == Ids(getCards(cards, last'.columnId, last'.laneId))
            after == Ids(getCards(cards', last'.columnId, last'.laneId))
            n == Len(before)
            stored == cards'[FindIndex(cards', id)]
            at == IF last'.index = NoNumber THEN n ELSE last'.index
        IN  at <= n =>
                /\ PosOf(after, id) = at + 1
                /\ stored.order = at
                /\ Without(after, id) = before
                /\ \A k \in DOMAIN cards :
                       cards[k].columnId # last'.columnId => cards'[k] = cards[k]
      ]_vars

\* ------------------------------------------------ setState / loadState

\* Bound of the load specification: cards in a loaded state.
MaxLoadCards == 2

\* normalizeOrders on one entity array: an entity without order gets its
\* position in the array.
normalizeOrders(xs) ==
    [k \in DOMAIN xs |->
        IF xs[k].order = NoNumber THEN [xs[k] EXCEPT !.order = k - 1] ELSE xs[k]]

\* setState(newState): [lanes, columns, cards].
setState(newState) ==
    [lanes |-> normalizeOrders(newState.lanes),
     columns |-> normalizeOrders(newState.columns),
     cards |-> normalizeOrders(newState.cards)]

\* The states given to loadState: columns A and B and up to MaxLoadCards
\* cards with distinct ids, no entity carrying an order.
LoadedCards ==
    UNION {{c \in [1..n -> [id : 1..(MaxLoadCards + 1), columnId : ColumnIds,
                            laneId : {Undefined}, order : {NoNumber}]] :
                \A i, j \in 1..n : i # j => c[i].id # c[j].id}
           : n \in 0..MaxLoadCards}

LoadedStates ==
    [lanes : {<<>>},
     columns : {[k \in DOMAIN InitColumns |-> [InitColumns[k] EXCEPT !.order = NoNumber]]},
     cards : LoadedCards]

\* board.loadState(state, {silent})
LoadState ==
    \E state \in LoadedStates, silent \in BOOLEAN :
        LET s == setState(state)
        IN  /\ cards' = s.cards
            /\ columns' = s.columns
            /\ lanes' = s.lanes
            /\ last' = [NoOp EXCEPT !.op = "setState", !.ret = TRUE]
            /\ emitted' = IF silent THEN <<>> ELSE <<"state:change">>
            /\ UNCHANGED <<drag, docListeners, gestureLog, preDrag, snapshot, bus, ui>>

LoadAddCard == AddCardStep(MaxLoadCards + 1, {Undefined})

LoadNext == LoadState \/ LoadAddCard

SpecLoad == StoreInit /\ [][LoadNext]_vars

\* C12: right after setState with a state whose entities lack order, every
\* entity has an order and every card sibling group is dense, so an addCard
\* without index that follows leaves no duplicate order in a group.
C12_LoadNormalizes ==
    [][ /\ last'.op = "setState" =>
              /\ \A k \in DOMAIN cards' : cards'[k].order # NoNumber
              /\ \A k \in DOMAIN columns' : columns'[k].order # NoNumber
              /\ DenseCards(cards')
        /\ (last.op = "setState" /\ last'.op = "addCard" /\ last'.index = NoNumber) =>
              \A i, j \in DOMAIN cards' :
                  (i # j /\ cards'[i].columnId = cards'[j].columnId
                         /\ cards'[i].laneId = cards'[j].laneId)
                  => cards'[i].order # cards'[j].order
      ]_vars

\* ------------------------------------------------------------ getState

\* Bound of the snapshot specification: cards in the store.
MaxSnapCards == 2

\* Whether property k of entity e is undefined.
IsUndefined(e, k) ==
    IF k = "order" THEN e[k] = NoNumber
    ELSE IF k = "id" THEN FALSE
    ELSE e[k] = Undefined

\* JSON.stringify of an entity: the properties whose value is not undefined.
JsonStringify(e) ==
    [k \in {k \in DOMAIN e : ~IsUndefined(e, k)} |-> e[k]]

\* JSON.parse of that text, read through the properties keys: a property the
\* text does not carry reads as undefined.
JsonParse(text, keys) ==
    [k \in keys |-> IF k \in DOMAIN text THEN text[k]
                    ELSE IF k = "order" THEN NoNumber ELSE Undefined]

\* JSON.parse(JSON.stringify(xs)) of an entity array.
JsonCopy(xs) == [i \in DOMAIN xs |-> JsonParse(JsonStringify(xs[i]), DOMAIN xs[i])]

\* A mutant of getState: the state object itself is handed out.
getStateByReference(cs, cols, ls) ==
    [value |-> [lanes |-> ls, columns |-> cols, cards |-> cs], shared |-> TRUE]

\* getState(): the returned value, and whether its objects are the store's own.
getState(cs, cols, ls) ==
    [value |-> [lanes |-> JsonCopy(ls), columns |-> JsonCopy(cols),
                cards |-> JsonCopy(cs)],
     shared |-> FALSE]

\* What a caller does to a value it got from getState(): write a field of a
\* card or of a column, or drop the last element of the cards array.
Mutations(v) ==
    {[v EXCEPT !.cards[k].columnId = c] : k \in DOMAIN v.cards, c \in ColumnIds}
    \cup {[v EXCEPT !.cards[k].order = o] : k \in DOMAIN v.cards, o \in 0..1}
    \cup {[v EXCEPT !.columns[k].order = o] : k \in DOMAIN v.columns, o \in 0..1}
    \cup {[v EXCEPT !.cards = SubSeq(v.cards, 1, Len(v.cards) - 1)] : k \in DOMAIN v.cards}

SnapAddCard == AddCardStep(MaxSnapCards, {Undefined})
SnapRemoveCard == RemoveCardStep(MaxSnapCards)

\* const s = board.getState()
GetState ==
    /\ snapshot' = getState(cards, columns, lanes)
    /\ last' = [NoOp EXCEPT !.op = "getState", !.ret = TRUE]
    /\ emitted' = <<>>
    /\ UNCHANGED <<cards, columns, lanes, drag, docListeners, gestureLog, preDrag, bus, ui>>

\* The caller writes into s; objects shared with the store change there too.
MutateSnapshot ==
    /\ snapshot # <<>>
    /\ \E v \in Mutations(snapshot.value) :
        /\ v # snapshot.value
        /\ snapshot' = [snapshot EXCEPT !.value = v]
        /\ cards' = IF snapshot.shared THEN v.cards ELSE cards
        /\ columns' = IF snapshot.shared THEN v.columns ELSE columns
        /\ lanes' = IF snapshot.shared THEN v.lanes ELSE lanes
    /\ last' = [NoOp EXCEPT !.op = "mutateSnapshot", !.ret = TRUE]
    /\ emitted' = <<>>
    /\ UNCHANGED <<drag, docListeners, gestureLog, preDrag, bus, ui>>

SnapshotNext == SnapAddCard \/ SnapRemoveCard \/ GetState \/ MutateSnapshot

SpecSnapshot == StoreInit /\ [][SnapshotNext]_vars

WithinTolerance(d) ==
    /\ Abs(d.currentX - d.startX) <= Tolerance
    /\ Abs(d.currentY - d.startY) <= Tolerance

\* C14: while every displacement stays within tolerance, no step of the gesture
\* (pointer-down, pointer-move, pointer-up) emits card:drag:start or
\* card:drag:end, reaches the store's move operation or changes the store.
C14_ToleranceGating ==
    [][ LET gated == \/ last'.op = "pointerdown"
                     \/ last'.op = "pointermove" /\ ~drag.isDragging /\ WithinTolerance(drag')
                     \/ last'.op = "pointerup" /\ ~drag.isDragging
        IN  gated =>
              /\ Count(emitted', "card:drag:start") = 0
              /\ Count(emitted', "card:drag:end") = 0
              /\ Count(emitted', "state:change") = 0
              /\ ~drag'.isDragging
              /\ <<cards', columns', lanes'>> = <<cards, columns, lanes>>
      ]_vars

\* A pointer-down followed, within tolerance, by a pointer-up.
C14_Witness ==
    /\ last.op = "pointerup" /\ ~last.ret
    /\ Count(gestureLog, "card:drag:start") = 0
    /\ Len(cards) > 0
    /\ Idle

\* C15: a pointer-up while the gesture is armed returns the machine to idle
\* and the engine emits nothing, card:drag:cancel included.
C15_ArmedUpSilent ==
    [][ (last'.op = "pointerup" /\ ~drag.isDragging) =>
            /\ emitted' = <<>>
            /\ drag' = InitialDragState
            /\ ~docListeners'
      ]_vars

\* C16: a pointer-cancel while the gesture is armed runs cleanup: the drag
\* state is reset and the document listeners are detached.
C16_ArmedCancelCleans ==
    [][ (last'.op = "pointercancel" /\ ~drag.isDragging) =>
            /\ drag' = InitialDragState
            /\ ~docListeners'
      ]_vars

\* C17: a pointer-down while a gesture is armed or dragging leaves the drag
\* state as it is.
C17_OneGesture ==
    [][ (last'.op = "pointerdown" /\ ~Idle) => drag' = drag ]_vars

\* ------------------------------------------------------------ EventBus

\* Bound of the event bus specification: invocations counted per handler.
MaxCalls == 3

\* The events of the event bus specification.
BusEvents == {"board:ready", "state:change"}

\* What a subscribed function does when invoked: return, throw, or emit the
\* same event again (when invoked by a dispatch that is not itself nested).
Behaviours == {"return", "throw", "emit"}

\* The place a deleted entry leaves in a Set that is being iterated.
Deleted == [fn |-> 0, once |-> FALSE, behaviour |-> "return", event |-> "none"]

\* A mutant of on: the newest handler comes first.
onFirst(b, entry) ==
    IF \E i \in DOMAIN b.handlers : b.handlers[i] = entry
    THEN b
    ELSE [b EXCEPT !.handlers = <<entry>> \o @]

\* on(event, handler): Set.add to the Set of entry.event, which keeps insertion
\* order and ignores a function that is already a member.  handlers lists the
\* members of all the Sets of the Map, each Set's members in its own order.
on(b, entry) ==
    IF \E i \in DOMAIN b.handlers : b.handlers[i] = entry
    THEN b
    ELSE [b EXCEPT !.handlers = Append(@, entry)]

\* off(event, handler): Set.delete.  once tells the wrapper that once() made
\* for fn from fn itself.
off(b, event, fn, once) ==
    [b EXCEPT !.handlers =
        [i \in DOMAIN @ |->
            IF @[i].event = event /\ @[i].fn = fn /\ @[i].once = once
            THEN Deleted ELSE @[i]]]

\* listenerCount(event)
listenerCount(b, event) ==
    Cardinality({i \in DOMAIN b.handlers : b.handlers[i].event = event})

\* A mutant of reportError: the handler's error leaves emit.
propagateError(b, threw) == IF threw THEN [b EXCEPT !.raised = TRUE] ELSE b

\* The catch clause of emit: console.error, and the loop goes on.
reportError(b, threw) == IF threw THEN [b EXCEPT !.errors = @ + 1] ELSE b

\* The function a "subscribe" handler subscribes.
Other(fn) == (fn % MaxHandlers) + 1

\* A handler that calls on(event, g) for a function g that is not subscribed.
SubscribeOther(b, h, event) ==
    IF \E i \in DOMAIN b.handlers : b.handlers[i].fn = Other(h.fn)
    THEN b
    ELSE on(b, [fn |-> Other(h.fn), once |-> FALSE, behaviour |-> "return",
                event |-> event])

\* A handler that calls off(event, itself) and then on(event, itself).  off
\* deletes the Set from the Map when it leaves it empty, and on then makes a
\* new Set that the running forEach does not iterate: the Map ends as it was.
\* Otherwise the function leaves its place in the Set and is added at the end.
\* The handler does so for its first MaxCalls invocations.
Resubscribe(b, h, event) ==
    IF b.calls[h.fn] > MaxCalls \/ listenerCount(b, event) = 1
    THEN b
    ELSE on(off(b, event, h.fn, h.once), h)

\* The forEach of emit(event) from entry i on; depth counts the emits it is
\* nested in.  An entry made by once() runs handler(data) and then
\* off(event, wrappedHandler).
RECURSIVE Dispatch(_, _, _, _)
Dispatch(b, event, i, depth) ==
    IF i > Len(b.handlers) \/ b.raised
    THEN b
    ELSE LET h == b.handlers[i]
         IN  IF h.event # event
             THEN Dispatch(b, event, i + 1, depth)
             ELSE LET called == [b EXCEPT !.calls[h.fn] = @ + 1,
                                          !.log = Append(@, h.fn)]
                      body == IF h.behaviour = "emit" /\ depth = 0
                              THEN Dispatch(called, event, 1, depth + 1)
                              ELSE IF h.behaviour = "subscribe"
                              THEN SubscribeOther(called, h, event)
                              ELSE IF h.behaviour = "resubscribe"
                              THEN Resubscribe(called, h, event)
                              ELSE called
                      threw == h.behaviour = "throw"
                      done == IF h.once /\ ~threw
                              THEN off(body, event, h.fn, TRUE)
                              ELSE body
                  IN  Dispatch(reportError(done, threw), event, i + 1, depth)

\* The Sets once no iteration is running.
Compact(b) ==
    LET Live(h) == h.fn # 0
    IN  [b EXCEPT !.handlers = SelectSeq(@, Live)]

\* emit(event, data)
emit(b, event) ==
    Compact(Dispatch([b EXCEPT !.errors = 0, !.raised = FALSE, !.event = event,
                               !.log = <<>>], event, 1, 0))

NoBoard ==
    UNCHANGED <<cards, columns, lanes, emitted, drag, docListeners, gestureLog,
                preDrag, snapshot, ui>>

Subscribed(b, fn) == \E i \in DOMAIN b.handlers : b.handlers[i].fn = fn

\* The handler functions subscribed to event, in the order of its Set.
HandlersOf(b, event) ==
    LET For(h) == h.event = event
        hs == SelectSeq(b.handlers, For)
    IN  [i \in DOMAIN hs |-> hs[i].fn]

\* The observer's list without the functions that are no longer subscribed.
StillSubscribed(b) ==
    LET Is(fn) == Subscribed(b, fn)
    IN  [b EXCEPT !.subscribed = SelectSeq(@, Is)]

\* bus.on(event, fn), for a function that is not subscribed.
BusOn ==
    \E fn \in Fns, behaviour \in Behaviours, event \in BusEvents :
        /\ ~Subscribed(bus, fn)
        /\ bus' = [on(bus, [fn |-> fn, once |-> FALSE, behaviour |-> behaviour,
                            event |-> event])
                     EXCEPT !.calls[fn] = 0,
                            !.subscribed = Append(@, fn),
                            !.registered[fn] = [kind |-> "on", behaviour |-> behaviour]]
        /\ last' = [NoOp EXCEPT !.op = "on", !.id = fn, !.ret = TRUE]
        /\ NoBoard

\* bus.once(event, fn), for a function that is not subscribed.
BusOnce ==
    \E fn \in Fns, behaviour \in Behaviours, event \in BusEvents :
        /\ ~Subscribed(bus, fn)
        /\ bus' = [on(bus, [fn |-> fn, once |-> TRUE, behaviour |-> behaviour,
                            event |-> event])
                     EXCEPT !.calls[fn] = 0,
                            !.subscribed = Append(@, fn),
                            !.registered[fn] = [kind |-> "once", behaviour |-> behaviour]]
        /\ last' = [NoOp EXCEPT !.op = "once", !.id = fn, !.ret = TRUE]
        /\ NoBoard

\* bus.off(event, fn): fn itself is in the Set only if on() put it there.
BusOff ==
    \E fn \in Fns, event \in BusEvents :
        /\ bus' = StillSubscribed(Compact(off(bus, event, fn, FALSE)))
        /\ last' = [NoOp EXCEPT !.op = "off", !.id = fn, !.columnId = event,
                                !.ret = TRUE]
        /\ NoBoard

\* bus.emit(event)
BusEmit ==
    \E event \in BusEvents :
        LET r == emit(bus, event)
        IN  /\ \A fn \in Fns : r.calls[fn] <= MaxCalls
            /\ bus' = StillSubscribed(r)
            /\ last' = [NoOp EXCEPT !.op = "emit", !.ret = TRUE]
            /\ NoBoard

BusNext == BusOn \/ BusOnce \/ BusOff \/ BusEmit

SpecBus == StoreInit /\ [][BusNext]_vars

\* The handlers subscribed to the event of the emit that is being taken.
Invoked == {i \in DOMAIN bus.handlers : bus.handlers[i].event = bus'.event}

\* C18: when handlers of an emit throw, every handler subscribed to the event
\* is still invoked exactly once by that emit, and emit returns normally.
C18_FailureIsolation ==
    [][ (last'.op = "emit"
         /\ \A i \in Invoked : bus.handlers[i].behaviour # "emit") =>
            /\ ~bus'.raised
            /\ \A i \in Invoked :
                   bus'.calls[bus.handlers[i].fn] = bus.calls[bus.handlers[i].fn] + 1
            /\ bus'.errors = Cardinality({i \in Invoked :
                                              bus.handlers[i].behaviour = "throw"})
      ]_vars

\* An emit in which the first handler threw and the one behind it was invoked.
C18_Witness ==
    /\ last.op = "emit"
    /\ bus.errors > 0
    /\ Len(bus.handlers) = 2
    /\ bus.handlers[1].behaviour = "throw"
    /\ bus.handlers[2].behaviour = "return"
    /\ bus.handlers[2].event = bus.event
    /\ bus.calls[bus.handlers[2].fn] > 0

\* C19: a handler registered with once() is no longer subscribed after the
\* first emit that invokes it, even if it throws.
C19_OnceRemovedOnThrow ==
    [][ last'.op = "emit" =>
            \A i \in Invoked :
                bus.handlers[i].once => ~Subscribed(bus', bus.handlers[i].fn)
      ]_vars

\* C20: a handler registered with once() that does not throw is invoked exactly
\* once, by the first emit after its registration, also when it or another
\* handler emits the event again during that dispatch.
C20_OnceExactlyOnce ==
    \A fn \in Fns :
        (bus.registered[fn].kind = "once" /\ bus.registered[fn].behaviour # "throw") =>
            /\ bus.calls[fn] <= 1
            /\ bus.calls[fn] = 1 <=> ~Subscribed(bus, fn)

\* C21: emit(event) invokes the handlers subscribed to event, each exactly
\* once and in the order of their subscription, and no handler of another
\* event.
C21_SubscriptionOrder ==
    [][ (last'.op = "emit"
         /\ \A i \in Invoked : bus.handlers[i].behaviour # "emit") =>
            LET For(fn) == \E i \in Invoked : bus.handlers[i].fn = fn
            IN  bus'.log = SelectSeq(bus.subscribed, For)
      ]_vars

\* Two handlers of one event were invoked in the order of their subscription,
\* the later subscribed being the function of the smaller number.
C21_Witness ==
    /\ last.op = "emit"
    /\ bus.log = <<2, 1>>
    /\ bus.subscribed = <<2, 1>>
    /\ HandlersOf(bus, bus.event) = <<2, 1>>

\* C22: after off(event, h) no emit(event) invokes h, whether h was subscribed
\* with on or with once, and off of a handler that is not subscribed changes
\* nothing.
C22_OffSilences ==
    [][ /\ last'.op = "off" =>
              /\ \A i \in DOMAIN bus'.handlers :
                     ~(bus'.handlers[i].fn = last'.id
                       /\ bus'.handlers[i].event = last'.columnId)
              /\ ~Subscribed(bus, last'.id) => bus' = bus
        /\ (last.op = "off" /\ last'.op = "emit" /\ bus'.event = last.columnId) =>
              bus'.calls[last.id] = bus.calls[last.id]
      ]_vars

\* ------------------------------------------- update and remove by id

\* board.updateColumn(columnId, {order}).
BoardUpdateColumn(columnIds, orders) ==
    \E columnId \in columnIds, order \in orders :
        LET r == updateColumnOrder(columns, columnId, order)
        IN  /\ columns' = r.columns
            /\ last' = [NoOp EXCEPT !.op = "updateColumn", !.columnId = columnId,
                                    !.index = order, !.ret = r.ret]
            /\ emitted' = Announce(r.ret, "column:update")
            /\ UNCHANGED <<cards, lanes, drag, docListeners, gestureLog, preDrag, snapshot, bus, ui>>

\* board.updateLane(laneId, {order}).
BoardUpdateLane(laneIds, orders) ==
    \E laneId \in laneIds, order \in orders :
        LET r == updateLaneOrder(lanes, laneId, order)
        IN  /\ lanes' = r.lanes
            /\ last' = [NoOp EXCEPT !.op = "updateLane", !.laneId = laneId,
                                    !.index = order, !.ret = r.ret]
            /\ emitted' = Announce(r.ret, "lane:update")
            /\ UNCHANGED <<cards, columns, drag, docListeners, gestureLog, preDrag, snapshot, bus, ui>>

UpdAddCard == BoardAddCard(MaxBoardCards, ColumnIds, LaneIds, {NoNumber})
UpdUpdateCard == BoardUpdateCard(MaxBoardCards, {Undefined, "B"})
UpdRemoveCard == BoardRemoveCard(MaxBoardCards)
UpdUpdateColumn == BoardUpdateColumn(ColumnIds, 0..1)
UpdRemoveColumn == BoardRemoveColumn(ColumnIds)
UpdUpdateLane == BoardUpdateLane(BoardLaneIds, 0..1)
UpdRemoveLane == BoardRemoveLane(BoardLaneIds)

UpdateNext ==
    \/ UpdAddCard \/ UpdUpdateCard \/ UpdRemoveCard
    \/ UpdUpdateColumn \/ UpdRemoveColumn
    \/ UpdUpdateLane \/ UpdRemoveLane

SpecUpdate == BoardInit /\ [][UpdateNext]_vars

\* C23: update and remove of a card, column or lane whose id is not in the
\* store return null or false, leave the store unchanged and emit nothing.
C23_UnknownIdIsValue ==
    [][ LET unknown ==
              \/ last'.op \in {"updateCard", "removeCard"} /\ FindIndex(cards, last'.id) = 0
              \/ /\ last'.op \in {"updateColumn", "removeColumn"}
                 /\ FindIndex(columns, last'.columnId) = 0
              \/ last'.op \in {"updateLane", "removeLane"} /\ FindIndex(lanes, last'.laneId) = 0
        IN  unknown =>
              /\ ~last'.ret
              /\ <<cards', columns', lanes'>> = <<cards, columns, lanes>>
              /\ emitted' = <<>>
      ]_vars

\* updateColumn was called for a column that had been removed, cards in store.
C23_Witness ==
    /\ last.op = "updateColumn" /\ ~last.ret
    /\ FindIndex(columns, last.columnId) = 0
    /\ Len(cards) > 0
    /\ emitted = <<>>

\* --------------------------------------------------- identity values

\* Bound of the identity specification: cards, and columns, in the store.
MaxIdEntities == 2

\* An ID is a number or a string (type ID = string | number); text is the
\* string's characters.
NumberId(n) == [kind |-> "number", num |-> n, text |-> <<>>]
StringId(s) == [kind |-> "string", num |-> 0, text |-> s]

\* The ids given to cards and columns: numbers, numeric-looking strings and
\* other strings.
IdValues ==
    {NumberId(n) : n \in {0, 7, 10}}
    \cup {StringId(s) : s \in {<<"7">>, <<"1", "0">>, <<"0", "7">>, <<"a">>, <<"a", "7">>}}

DigitChars == <<"0", "1", "2", "3", "4", "5", "6", "7", "8", "9">>

\* String(n) of a natural number.
RECURSIVE NumberToString(_)
NumberToString(n) ==
    IF n < 10 THEN <<DigitChars[n + 1]>>
    ELSE NumberToString(n \div 10) \o <<DigitChars[(n % 10) + 1]>>

\* String(id): the text of dataset.cardId and dataset.columnId.
ToAttribute(id) == IF id.kind = "number" THEN NumberToString(id.num) ELSE id.text

\* /^\d+$/.test(raw)
IsDigits(raw) ==
    /\ Len(raw) > 0
    /\ \A i \in DOMAIN raw : \E d \in DOMAIN DigitChars : DigitChars[d] = raw[i]

\* Number(raw) of a text of digits.
RECURSIVE ToNumber(_)
ToNumber(raw) ==
    IF Len(raw) = 0 THEN 0
    ELSE LET d == CHOOSE d \in DOMAIN DigitChars : DigitChars[d] = raw[Len(raw)]
         IN  10 * ToNumber(SubSeq(raw, 1, Len(raw) - 1)) + (d - 1)

\* /^\d+$/.test(raw) ? Number(raw) : raw
ParseId(raw) == IF IsDigits(raw) THEN NumberId(ToNumber(raw)) ELSE StringId(raw)

\* !id of JavaScript: 0 and the empty string.
Falsy(id) == IF id.kind = "number" THEN id.num = 0 ELSE id.text = <<>>

\* The card handlePointerDown resolves on the element rendered for cs[k]: its
\* position in the store, 0 when the pointer-down is dropped.
CardAtPointerDown(cs, cols, k) ==
    LET raw == ToAttribute(cs[k].id)
        ci == FindIndex(cs, ParseId(raw))
    IN  IF raw = <<>> \/ ci = 0 THEN 0
        ELSE IF Falsy(cs[ci].columnId) \/ FindIndex(cols, cs[ci].columnId) = 0 THEN 0
        ELSE ci

\* The column findDropTarget resolves on the element rendered for cols[k]: its
\* position in the store, 0 when there is no drop target.
ColumnAtHitTest(cols, k) ==
    LET raw == ToAttribute(cols[k].id)
        columnId == ParseId(raw)
    IN  IF raw = <<>> \/ Falsy(columnId) THEN 0 ELSE FindIndex(cols, columnId)

IdInit ==
    /\ cards = <<>>
    /\ columns = <<>>
    /\ lanes = <<>>
    /\ last = NoOp
    /\ Quiet

\* board.addColumn({id})
IdAddColumn ==
    \E id \in IdValues :
        /\ Len(columns) < MaxIdEntities
        /\ FindIndex(columns, id) = 0
        /\ columns' = addColumn(columns, [id |-> id, laneId |-> Undefined,
                                          order |-> NoNumber], NoNumber)
        /\ last' = [NoOp EXCEPT !.op = "addColumn", !.ret = TRUE]
        /\ UNCHANGED <<cards, lanes>> /\ NoDrag

\* board.addCard({id, columnId}) into a column of the board, without index:
\* the card is pushed with order = number of cards of that column.
IdAddCard ==
    \E id \in IdValues, c \in DOMAIN columns :
        /\ Len(cards) < MaxIdEntities
        /\ FindIndex(cards, id) = 0
        /\ cards' = Append(cards,
              [id |-> id, columnId |-> columns[c].id, laneId |-> Undefined,
               order |-> Cardinality({i \in DOMAIN cards :
                                         cards[i].columnId = columns[c].id})])
        /\ last' = [NoOp EXCEPT !.op = "addCard", !.ret = TRUE]
        /\ UNCHANGED <<columns, lanes>> /\ NoDrag

\* pointerdown on the element of the k-th card: whether a gesture is armed,
\* and the position in the store of the card it is armed with.
IdPointerDown ==
    \E k \in DOMAIN cards :
        /\ last' = [NoOp EXCEPT !.op = "pointerdown", !.index = k,
                                !.id = CardAtPointerDown(cards, columns, k),
                                !.ret = CardAtPointerDown(cards, columns, k) # 0]
        /\ UNCHANGED <<cards, columns, lanes>> /\ NoDrag

\* findDropTarget over the element of the k-th column: whether it is a target.
IdHitTest ==
    \E k \in DOMAIN columns :
        /\ last' = [NoOp EXCEPT !.op = "findDropTarget", !.index = k,
                                !.ret = ColumnAtHitTest(columns, k) # 0]
        /\ UNCHANGED <<cards, columns, lanes>> /\ NoDrag

IdentityNext == IdAddColumn \/ IdAddCard \/ IdPointerDown \/ IdHitTest

SpecIdentity == IdInit /\ [][IdentityNext]_vars

\* C24: the id parsed from the rendered attribute of a stored card or column,
\* be the stored id a number or a numeric-looking string, resolves to that same
\* stored entity at pointer-down and during hit-testing.
C24_IdentityRoundTrip ==
    /\ \A k \in DOMAIN cards : CardAtPointerDown(cards, columns, k) = k
    /\ \A k \in DOMAIN columns : ColumnAtHitTest(columns, k) = k

\* ------------------------------------------------ drags across lanes

\* A board with lanes: column A in lane L1, column C in lane L2, the cards
\* 1..MaxDragCards in column A of lane L1.
LaneDragInit ==
    /\ cards = [i \in 1..MaxDragCards |->
                   [id |-> i, columnId |-> "A", laneId |-> "L1", order |-> i - 1]]
    /\ columns = <<[id |-> "A", laneId |-> "L1", order |-> 0],
                   [id |-> "C", laneId |-> "L2", order |-> 1]>>
    /\ lanes = <<[id |-> "L1", order |-> 0], [id |-> "L2", order |-> 1]>>
    /\ last = NoOp
    /\ Quiet

SpecLaneDrag == LaneDragInit /\ [][DragNext]_vars

\* C25: on a board with lanes every card's laneId is the laneId of the column
\* its columnId names, and the card is rendered in exactly one column.
C25_LaneConsistency ==
    lanes # <<>> =>
        \A k \in DOMAIN cards :
            LET c == FindIndex(columns, cards[k].columnId)
            IN  /\ c # 0
                /\ cards[k].laneId = columns[c].laneId
                /\ Cardinality(RenderedIn(cards[k], columns, lanes)) = 1

\* ------------------------------------------- readonly and draggable

\* attachEventListeners
attachEventListeners(u) ==
    IF u.dndReadonly \/ ~u.dndDraggable THEN u ELSE [u EXCEPT !.listening = TRUE]

\* detachEventListeners: the container's and the document's listeners; [ui, doc].
detachEventListeners(u) == [ui |-> [u EXCEPT !.listening = FALSE], doc |-> FALSE]

\* DragAndDropManager.setDraggable(draggable): [ui, doc].
setDraggable(u, doc, draggable) ==
    IF u.dndDraggable = draggable
    THEN [ui |-> u, doc |-> doc]
    ELSE LET u1 == [u EXCEPT !.dndDraggable = draggable]
         IN  IF draggable /\ ~u1.dndReadonly
             THEN [ui |-> attachEventListeners(u1), doc |-> doc]
             ELSE detachEventListeners(u1)

\* DragAndDropManager.setReadonly(readonly): [ui, doc].
setReadonly(u, doc, readonly) ==
    IF u.dndReadonly = readonly
    THEN [ui |-> u, doc |-> doc]
    ELSE LET u1 == [u EXCEPT !.dndReadonly = readonly]
         IN  IF readonly THEN detachEventListeners(u1)
             ELSE IF u1.dndDraggable THEN [ui |-> attachEventListeners(u1), doc |-> doc]
             ELSE [ui |-> u1, doc |-> doc]

\* new SaharosKanban(container, {readonly, draggable}): initializeDragAndDrop
\* hands both options to the DragAndDropManager, whose constructor attaches.
NewUi(readonly, draggable) ==
    attachEventListeners([DefaultUi EXCEPT !.readonly = readonly, !.draggable = draggable,
                                           !.dndReadonly = readonly,
                                           !.dndDraggable = draggable,
                                           !.listening = FALSE])

\* A board without lanes as in DragInit, constructed with any readonly and
\* draggable options.
ReadonlyInit ==
    /\ cards = [i \in 1..MaxDragCards |->
                   [id |-> i, columnId |-> "A", laneId |-> Undefined, order |-> i - 1]]
    /\ columns = InitColumns
    /\ lanes = <<>>
    /\ last = NoOp
    /\ emitted = <<>>
    /\ drag = InitialDragState
    /\ docListeners = FALSE
    /\ gestureLog = <<>>
    /\ preDrag = <<>>
    /\ snapshot = <<>>
    /\ bus = EmptyBus
    /\ \E readonly \in BOOLEAN, draggable \in BOOLEAN : ui = NewUi(readonly, draggable)

\* board.setOptions({readonly}) or board.setOptions({draggable}): the options
\* are merged and the board is rendered again.
SetOptions ==
    \E key \in {"readonly", "draggable"}, value \in BOOLEAN :
        /\ ui' = [ui EXCEPT ![key] = value]
        /\ last' = [NoOp EXCEPT !.op = "setOptions", !.ret = value]
        /\ emitted' = <<>>
        /\ UNCHANGED <<cards, columns, lanes, drag, docListeners, gestureLog, preDrag,
                       snapshot, bus>>

\* dndManager.setReadonly(options.readonly): the manager is given the board's
\* current option.
DndSetReadonly ==
    \E readonly \in {ui.readonly} :
        LET r == setReadonly(ui, docListeners, readonly)
        IN  /\ ui' = r.ui
            /\ docListeners' = r.doc
            /\ last' = [NoOp EXCEPT !.op = "setReadonly", !.ret = readonly]
            /\ emitted' = <<>>
            /\ UNCHANGED <<cards, columns, lanes, drag, gestureLog, preDrag, snapshot, bus>>

\* dndManager.setDraggable(options.draggable): the manager is given the board's
\* current option.
DndSetDraggable ==
    \E draggable \in {ui.draggable} :
        LET r == setDraggable(ui, docListeners, draggable)
        IN  /\ ui' = r.ui
            /\ docListeners' = r.doc
            /\ last' = [NoOp EXCEPT !.op = "setDraggable", !.ret = draggable]
            /\ emitted' = <<>>
            /\ UNCHANGED <<cards, columns, lanes, drag, gestureLog, preDrag, snapshot, bus>>

ReadonlyNext ==
    \/ SetOptions \/ DndSetReadonly \/ DndSetDraggable
    \/ PointerDown \/ PointerUp \/ PointerCancel

SpecReadonly == ReadonlyInit /\ [][ReadonlyNext]_vars

\* C26: while the board is read-only or not draggable, however that was set, a
\* pointer-down on a card arms no gesture, emits nothing and changes neither
\* the drag state nor the store.
C26_ReadonlyIgnoresPointerDown ==
    [][ ((ui.readonly \/ ~ui.draggable \/ ui.dndReadonly \/ ~ui.dndDraggable)
         /\ last'.op = "pointerdown") =>
            /\ drag' = drag
            /\ docListeners' = docListeners
            /\ emitted' = <<>>
            /\ <<cards', columns', lanes'>> = <<cards, columns, lanes>>
      ]_vars

\* ---------------------------------------------------------------------------
\* Keyboard pick-up and drop (AccessibilityManager) on a board whose readonly
\* option may be set.  ui.enhanced: the rendered cards carry tabindex and the
\* data-column-id attribute (enhanceAccessibility ran with a manager; the
\* constructor's first render runs before the manager exists).  ui.domFocus:
\* the element of currentFocus is still in the document.  currentFocus and
\* pickingCard are <<>> for null and <<value>> otherwise; a focus whose cardId
\* is NoNumber is a column header.
\* ---------------------------------------------------------------------------

\* render(): the elements are replaced and enhanced by the manager.
render(u) == [u EXCEPT !.enhanced = TRUE, !.domFocus = FALSE]

\* handleFocus on a card element: the focus is read from the data attributes
\* written by enhanceCard.
handleFocusCard(u, card) ==
    [ui |-> [u EXCEPT !.domFocus = TRUE,
                      !.currentFocus =
                          <<[cardId |-> card.id, columnId |-> card.columnId,
                             laneId |-> IF card.laneId = Undefined THEN Null
                                        ELSE card.laneId]>>],
     emitted |-> <<"a11y:focus:card">>]

\* handleFocus on a column header.
handleFocusHeader(u, column) ==
    [ui |-> [u EXCEPT !.domFocus = TRUE,
                      !.currentFocus =
                          <<[cardId |-> NoNumber, columnId |-> column.id,
                             laneId |-> Null]>>],
     emitted |-> <<>>]

\* The board's a11y:move:card subscriber.
A11yMoveHandler(cs, card, to) ==
    LET r == moveCard(cs, card.id, to, card.laneId, NoNumber)
    IN  IF r.ret
        THEN [cards |-> r.cards, emitted |-> <<"state:change">>, rendered |-> TRUE]
        ELSE [cards |-> cs, emitted |-> <<>>, rendered |-> FALSE]

\* dropCard: the picked copy is retargeted and a11y:move:card is emitted.
dropCard(u, cs, cols) ==
    LET focus == u.currentFocus[1]
        picking == u.pickingCard[1]
        fromColumn == {c \in DOMAIN cols : cols[c].id = picking.columnId}
        toColumn == {c \in DOMAIN cols : cols[c].id = focus.columnId}
    IN  IF fromColumn = {} \/ toColumn = {}
        THEN [ui |-> u, cards |-> cs, emitted |-> <<>>]
        ELSE LET moved == [picking EXCEPT !.columnId = focus.columnId]
                 h == A11yMoveHandler(cs, moved, focus.columnId)
                 u1 == IF h.rendered THEN render(u) ELSE u
             IN  [ui |-> [u1 EXCEPT !.pickingCard = <<>>],
                  cards |-> h.cards,
                  emitted |-> <<"a11y:move:card">> \o h.emitted]

\* handlePickDrop (Space or Enter): pick the focused card up, or drop the
\* picked card at the focused card.
handlePickDrop(u, cs, cols) ==
    IF u.currentFocus = <<>> \/ u.currentFocus[1].cardId = NoNumber
    THEN [ui |-> u, cards |-> cs, emitted |-> <<>>]
    ELSE LET cardIndex == FindIndex(cs, u.currentFocus[1].cardId)
         IN  IF cardIndex = 0
             THEN [ui |-> u, cards |-> cs, emitted |-> <<>>]
             ELSE IF u.pickingCard = <<>>
                  THEN [ui |-> [u EXCEPT !.pickingCard = <<cs[cardIndex]>>],
                        cards |-> cs, emitted |-> <<>>]
                  ELSE dropCard(u, cs, cols)

\* cancelPickedCard (Escape).
cancelPickedCard(u) == [u EXCEPT !.pickingCard = <<>>]

\* A board of two columns with one card each, constructed with any readonly
\* option.
KeyboardInit ==
    /\ cards = <<[id |-> 1, columnId |-> "A", laneId |-> Undefined, order |-> 0],
                 [id |-> 2, columnId |-> "B", laneId |-> Undefined, order |-> 0]>>
    /\ columns = InitColumns
    /\ lanes = <<>>
    /\ last = NoOp
    /\ emitted = <<>>
    /\ drag = InitialDragState
    /\ docListeners = FALSE
    /\ gestureLog = <<>>
    /\ preDrag = <<>>
    /\ snapshot = <<>>
    /\ bus = EmptyBus
    /\ \E readonly \in BOOLEAN : ui = NewUi(readonly, TRUE)

\* board.setOptions(patch), as seen by the keyboard layer.
KeySetOptions ==
    \E key \in {"readonly", "draggable"}, value \in BOOLEAN :
        /\ ui' = render([ui EXCEPT ![key] = value])
        /\ last' = [NoOp EXCEPT !.op = "setOptions", !.ret = value]
        /\ emitted' = <<>>
        /\ UNCHANGED <<cards, columns, lanes, drag, docListeners, gestureLog, preDrag,
                       snapshot, bus>>

\* The user moves the focus to a rendered card.
KeyFocusCard ==
    \E i \in DOMAIN cards :
        LET r == handleFocusCard(ui, cards[i])
        IN  /\ ui.enhanced
            /\ RenderedIn(cards[i], columns, lanes) # {}
            /\ ui' = r.ui
            /\ emitted' = r.emitted
            /\ last' = [NoOp EXCEPT !.op = "focus", !.id = cards[i].id]
            /\ UNCHANGED <<cards, columns, lanes, drag, docListeners, gestureLog,
                           preDrag, snapshot, bus>>

\* The user moves the focus to a column header.
KeyFocusHeader ==
    \E c \in DOMAIN columns :
        LET r == handleFocusHeader(ui, columns[c])
        IN  /\ ui.enhanced
            /\ ui' = r.ui
            /\ emitted' = r.emitted
            /\ last' = [NoOp EXCEPT !.op = "focus", !.columnId = columns[c].id]
            /\ UNCHANGED <<cards, columns, lanes, drag, docListeners, gestureLog,
                           preDrag, snapshot, bus>>

\* Space or Enter on the focused element.
KeyPickDrop ==
    LET r == handlePickDrop(ui, cards, columns)
    IN  /\ ui.domFocus
        /\ ui' = r.ui
        /\ cards' = r.cards
        /\ emitted' = r.emitted
        /\ last' = [NoOp EXCEPT !.op = "keydown", !.ret = ui.pickingCard # <<>>]
        /\ UNCHANGED <<columns, lanes, drag, docListeners, gestureLog, preDrag,
                       snapshot, bus>>

\* Escape on the focused element.
KeyEscape ==
    /\ ui.domFocus
    /\ ui' = cancelPickedCard(ui)
    /\ emitted' = <<>>
    /\ last' = [NoOp EXCEPT !.op = "escape", !.ret = ui.pickingCard # <<>>]
    /\ UNCHANGED <<cards, columns, lanes, drag, docListeners, gestureLog, preDrag,
                   snapshot, bus>>

KeyboardNext ==
    KeySetOptions \/ KeyFocusCard \/ KeyFocusHeader \/ KeyPickDrop \/ KeyEscape

SpecKeyboard == KeyboardInit /\ [][KeyboardNext]_vars

\* C27: while the readonly option is true, no keyboard interaction (focus,
\* Space/Enter, Escape) changes the cards, columns or lanes of the store or
\* emits a11y:move:card or state:change.
C27_ReadonlyKeyboardInert ==
    [][ (ui.readonly /\ last'.op \in {"focus", "keydown", "escape"}) =>
            /\ <<cards', columns', lanes'>> = <<cards, columns, lanes>>
            /\ \A k \in DOMAIN emitted' :
                   emitted'[k] \notin {"a11y:move:card", "state:change"}
      ]_vars

\* ---------------------------------------------------------------------------
\* The placeholder of a drag.  ui.insertIndex is the index at which
\* updateDropTarget last put the placeholder among the cards of the target
\* column that are not being dragged (NoNumber before the first placement).
\* ---------------------------------------------------------------------------

\* findDropTarget: the insertion indexes the pointer's y can select over
\* column hit, 0 (above the first card) to the number of the column's cards
\* that are not being dragged (below the last).
InsertIndexes(cs, d, hit) ==
    0..Len(Without(Ids(getCards(cs, hit, Undefined)), d.draggedCard[1]))

\* pointermove over column hit (or over none) with the pointer at insertion
\* index index of that column.
DropPointerMove ==
    \E x \in XCoords, y \in YCoords, hit \in {Null} \cup {columns[i].id : i \in DOMAIN columns},
       index \in 0..MaxDragCards :
        LET r == handlePointerMove(drag, x, y, hit)
            placed == r.drag.isDragging /\ hit # Null
        IN  /\ docListeners
            /\ Len(gestureLog) < MaxLog
            /\ IF placed THEN index \in InsertIndexes(cards, drag, hit) ELSE index = 0
            /\ drag' = r.drag
            /\ ui' = IF placed THEN [ui EXCEPT !.insertIndex = index] ELSE ui
            /\ emitted' = r.emitted
            /\ gestureLog' = gestureLog \o r.emitted
            /\ last' = [NoOp EXCEPT !.op = "pointermove", !.ret = drag.isDragging,
                                    !.columnId = hit,
                                    !.index = IF placed THEN index ELSE NoNumber]
            /\ UNCHANGED <<cards, columns, lanes, docListeners, preDrag, snapshot, bus>>

DropNext == PointerDown \/ DropPointerMove \/ PointerUp \/ PointerCancel

SpecDrop == DragInit /\ [][DropNext]_vars

\* C28: when a drag is committed (pointer-up while dragging) with the
\* placeholder at insertion index i of target column T (another column or the
\* card's own), the dragged card is afterwards at position i of getCards(T) and
\* the other cards of T keep their relative order.
C28_DropAtInsertIndex ==
    [][ (last'.op = "pointerup" /\ drag.isDragging /\ drag.targetColumn # Null) =>
            LET T == drag.targetColumn
                i == ui.insertIndex
                id == drag.draggedCard[1]
                before == Ids(getCards(cards, T, Undefined))
                after == Ids(getCards(cards', T, Undefined))
            IN  /\ i + 1 \in DOMAIN after
                /\ after[i + 1] = id
                /\ Without(after, id) = Without(before, id)
      ]_vars

\* ---------------------------------------------------------------------------
\* Subscribers of card:drag:end.  The payload's card is the store's own card
\* object (getCardData returns stateManager.getCard), so a subscriber reads the
\* columnId the store holds at the moment it is invoked.
\* ---------------------------------------------------------------------------

\* The function the board itself subscribes in setupDragEventHandlers.
BoardHandler == MaxHandlers + 1

DragEndEntry(fn) ==
    [fn |-> fn, once |-> FALSE,
     behaviour |-> IF fn = BoardHandler THEN "move" ELSE "observe",
     event |-> "card:drag:end"]

\* The forEach of emit('card:drag:end', {card, from, to}) from entry i on:
\* [bus, cards].
RECURSIVE EmitDragEnd(_, _, _, _, _, _)
EmitDragEnd(b, cs, id, from, to, i) ==
    IF i > Len(b.handlers)
    THEN [bus |-> b, cards |-> cs]
    ELSE LET h == b.handlers[i]
             ci == FindIndex(cs, id)
         IN  IF h.event # "card:drag:end"
             THEN EmitDragEnd(b, cs, id, from, to, i + 1)
             ELSE IF h.fn = BoardHandler
             THEN EmitDragEnd(b, DragEndHandler(cs, [id |-> id, laneId |-> cs[ci].laneId],
                                                from, to).cards,
                              id, from, to, i + 1)
             ELSE EmitDragEnd([b EXCEPT !.seen = Append(@, [fn |-> h.fn,
                                                            columnId |-> cs[ci].columnId,
                                                            from |-> from, to |-> to])],
                              cs, id, from, to, i + 1)

\* The subscriptions the constructor makes, in its order: the handlers of
\* options.on, the board's own handler (initializeDragAndDrop), the plugins.
Constructed(optionFns, pluginFns) ==
    LET Register(b, fns, kind) ==
            IF fns = {} THEN b
            ELSE LET fn == CHOOSE f \in fns : TRUE
                 IN  [on(b, DragEndEntry(fn))
                        EXCEPT !.registered[fn] = [kind |-> kind, behaviour |-> "observe"]]
    IN  Register(on(Register(EmptyBus, optionFns, "option"), DragEndEntry(BoardHandler)),
                 pluginFns, "plugin")

\* new SaharosKanban(container, options) on a board of columns A and B with one
\* card in A, with at most one handler in options.on and at most one plugin.
SubscriberInit ==
    /\ cards = <<[id |-> 1, columnId |-> "A", laneId |-> Undefined, order |-> 0]>>
    /\ columns = InitColumns
    /\ lanes = <<>>
    /\ last = NoOp
    /\ emitted = <<>>
    /\ drag = InitialDragState
    /\ docListeners = FALSE
    /\ gestureLog = <<>>
    /\ preDrag = <<>>
    /\ snapshot = <<>>
    /\ ui = DefaultUi
    /\ \E optionFns \in {{}, {1}}, pluginFns \in {{}, {MaxHandlers}} :
           bus = Constructed(optionFns, pluginFns \ optionFns)

\* board.on('card:drag:end', fn) after construction, fn not yet subscribed.
SubscribeOn ==
    \E fn \in Fns :
        /\ ~Subscribed(bus, fn)
        /\ bus' = [on(bus, DragEndEntry(fn))
                     EXCEPT !.registered[fn] = [kind |-> "on", behaviour |-> "observe"]]
        /\ last' = [NoOp EXCEPT !.op = "on", !.id = fn, !.ret = TRUE]
        /\ NoBoard

\* pointerup (document listener), the subscribers of card:drag:end included.
SubscriberPointerUp ==
    \E r \in {handlePointerUp(drag, cards)} :
    LET ends == r.emitted # <<>> /\ r.emitted[1] = "card:drag:end"
        to == IF drag.targetColumn # Null THEN drag.targetColumn ELSE drag.sourceColumn
    IN
    \E e \in {IF ends
              THEN EmitDragEnd([bus EXCEPT !.seen = <<>>, !.event = "card:drag:end"],
                               cards, drag.draggedCard[1], drag.sourceColumn, to, 1)
              ELSE [bus |-> bus, cards |-> r.cards]} :
        /\ docListeners
        /\ drag' = r.drag
        /\ docListeners' = r.doc
        /\ cards' = e.cards
        /\ bus' = e.bus
        /\ emitted' = r.emitted
        /\ gestureLog' = gestureLog \o r.emitted
        /\ last' = [NoOp EXCEPT !.op = "pointerup", !.ret = drag.isDragging]
        /\ UNCHANGED <<columns, lanes, preDrag, snapshot, ui>>

SubscriberNext ==
    \/ SubscribeOn
    \/ PointerDown \/ PointerMove \/ SubscriberPointerUp \/ PointerCancel

SpecSubscribers == SubscriberInit /\ [][SubscriberNext]_vars

\* C29: for a drop into a different column, every subscriber of card:drag:end
\* (registered by options.on, by board.on() after construction or by a plugin)
\* is invoked with a payload whose card.columnId is the new column id, equal to
\* to.id, from being the source column and to the target column.
C29_SubscribersSeeNewColumn ==
    [][ (/\ last'.op = "pointerup"
         /\ drag.isDragging
         /\ drag.targetColumn \notin {Null, drag.sourceColumn}) =>
            /\ \A fn \in Fns :
                   Subscribed(bus, fn) => \E k \in DOMAIN bus'.seen : bus'.seen[k].fn = fn
            /\ \A k \in DOMAIN bus'.seen :
                   /\ bus'.seen[k].columnId = drag.targetColumn
                   /\ bus'.seen[k].from = drag.sourceColumn
                   /\ bus'.seen[k].to = drag.targetColumn
      ]_vars

\* ---------------------------------------------------------------------------
\* wipLimitPlugin.  A column's meta.wipLimit is the field wipLimit of its
\* record (NoNumber when it has none).  ui.wipWarning is the column that was
\* given the warning class by the last move, ui.wipExceeded the columns that
\* carry the class sk-wip-exceeded.
\* ---------------------------------------------------------------------------

WipLimit == 1

\* state.cards.filter(c => c.columnId === column.id).length
CardsInColumn(cs, columnId) == Cardinality({i \in DOMAIN cs : cs[i].columnId = columnId})

\* The plugin's subscribers of card:drag:end and a11y:move:card: when the
\* target column holds more cards than its limit, onLimitExceeded is called
\* and the column is given the warning class.  The store is not written.
wipLimitOnMove(u, cs, cols, to) ==
    LET c == FindIndex(cols, to)
    IN  IF c # 0 /\ cols[c].wipLimit # NoNumber
             /\ CardsInColumn(cs, to) > cols[c].wipLimit
        THEN [u EXCEPT !.wipWarning = to]
        ELSE u

\* The plugin's subscriber of state:change: the classes of every column that
\* has a limit are refreshed.
wipLimitOnStateChange(u, cs, cols) ==
    [u EXCEPT !.wipExceeded =
        {cols[c].id : c \in {c \in DOMAIN cols :
                                /\ cols[c].wipLimit # NoNumber
                                /\ CardsInColumn(cs, cols[c].id) > cols[c].wipLimit}}]

\* What the plugin does for a move that emitted events with target column to,
\* the store holding cs when its subscribers run; a render comes with every
\* state:change.
wipLimitPlugin(u, cs, cols, to, events) ==
    LET Has(e) == \E k \in DOMAIN events : events[k] = e
        u1 == IF Has("card:drag:end") \/ Has("a11y:move:card")
              THEN wipLimitOnMove(u, cs, cols, to) ELSE u
    IN  IF Has("state:change") THEN wipLimitOnStateChange(render(u1), cs, cols) ELSE u1

\* new SaharosKanban(container, {columns, cards, plugins: [wipLimitPlugin()]}):
\* column A without a limit holds card 1, column B with limit WipLimit holds
\* the cards 2..WipLimit + 1.
WipInit ==
    /\ cards = [i \in 1..(WipLimit + 1) |->
                   [id |-> i, columnId |-> IF i = 1 THEN "A" ELSE "B",
                    laneId |-> Undefined, order |-> IF i = 1 THEN 0 ELSE i - 2]]
    /\ columns = <<[id |-> "A", laneId |-> Undefined, order |-> 0, wipLimit |-> NoNumber],
                   [id |-> "B", laneId |-> Undefined, order |-> 1, wipLimit |-> WipLimit]>>
    /\ lanes = <<>>
    /\ last = NoOp
    /\ Quiet

\* pointerdown on a rendered card; gestures are explored on the board whose
\* keyboard layer has not been given the focus yet.
WipPointerDown == ui.currentFocus = <<>> /\ PointerDown

\* pointerup (document listener) with the plugin installed.
WipPointerUp ==
    \E r \in {handlePointerUp(drag, cards)} :
        LET to == IF drag.targetColumn # Null THEN drag.targetColumn
                  ELSE drag.sourceColumn
        IN
        /\ docListeners
        /\ drag' = r.drag
        /\ docListeners' = r.doc
        /\ cards' = r.cards
        /\ ui' = wipLimitPlugin(ui, r.cards, columns, to, r.emitted)
        /\ emitted' = r.emitted
        /\ gestureLog' = gestureLog \o r.emitted
        /\ last' = [NoOp EXCEPT !.op = "pointerup", !.ret = drag.isDragging]
        /\ UNCHANGED <<columns, lanes, preDrag, snapshot, bus>>

\* Space or Enter on the focused element with the plugin installed, between
\* pointer gestures.
WipKeyPickDrop ==
    \E r \in {handlePickDrop(ui, cards, columns)} :
        /\ ui.domFocus
        /\ Idle
        /\ ui' = IF r.emitted = <<>> THEN r.ui
                 ELSE wipLimitPlugin(r.ui, r.cards, columns,
                                     ui.currentFocus[1].columnId, r.emitted)
        /\ cards' = r.cards
        /\ emitted' = r.emitted
        /\ last' = [NoOp EXCEPT !.op = "keydown", !.ret = ui.pickingCard # <<>>]
        /\ UNCHANGED <<columns, lanes, drag, docListeners, gestureLog, preDrag,
                       snapshot, bus>>

\* The user moves the focus to a rendered card of a board on which no pointer
\* gesture has been made.
WipKeyFocusCard == Idle /\ preDrag = <<>> /\ KeyFocusCard

\* board.moveCard(cardId, {columnId}) with the plugin installed, between
\* pointer gestures.
WipMoveCard ==
    \E id \in 1..(WipLimit + 1), columnId \in ColumnIds :
        \E r \in {boardMoveCard(cards, columns, id, columnId, Undefined, NoNumber)} :
            /\ Idle
            /\ cards' = r.cards
            /\ ui' = wipLimitPlugin(ui, r.cards, columns, columnId, r.emitted)
            /\ last' = [op |-> "moveCard", id |-> id, columnId |-> columnId,
                        laneId |-> Undefined, index |-> NoNumber, ret |-> r.ret]
            /\ emitted' = r.emitted
            /\ UNCHANGED <<columns, lanes, drag, docListeners, gestureLog, preDrag,
                           snapshot, bus>>

WipNext ==
    \/ WipPointerDown \/ PointerMove \/ WipPointerUp \/ PointerCancel
    \/ WipKeyFocusCard \/ WipKeyPickDrop \/ WipMoveCard

SpecWip == WipInit /\ [][WipNext]_vars

\* C30: with wipLimitPlugin installed, a column whose meta.wipLimit is L and
\* that held at most L cards never holds more than L cards, whatever pointer
\* drags, keyboard moves and moveCard calls are made.
C30_WipLimitEnforced ==
    \A c \in DOMAIN columns :
        columns[c].wipLimit # NoNumber =>
            CardsInColumn(cards, columns[c].id) <= columns[c].wipLimit

\* ---------------------------------------------------------------------------
\* Programmatic calls during a gesture.  The engine keeps the card and the
\* columns it resolved at pointer-down and at the last drag-over; the board's
\* subscriber of card:drag:end passes their ids to the store's moveCard.
\* ---------------------------------------------------------------------------

\* A board of columns A and B with one card in A.
StaleInit ==
    /\ cards = <<[id |-> 1, columnId |-> "A", laneId |-> Undefined, order |-> 0]>>
    /\ columns = InitColumns
    /\ lanes = <<>>
    /\ last = NoOp
    /\ Quiet

\* board.removeColumn and board.removeCard called while a card is dragged.
StaleRemoveColumn == drag.isDragging /\ BoardRemoveColumn(ColumnIds)
StaleRemoveCard == drag.isDragging /\ BoardRemoveCard(1)

\* board.loadState(state), called while a card is dragged, with a state that
\* holds column A only and the cards that are in it.
StaleLoadState ==
    \E silent \in BOOLEAN :
        LET InA(c) == c.columnId = "A"
            IsA(c) == c.id = "A"
            s == setState([lanes |-> lanes, columns |-> SelectSeq(columns, IsA),
                           cards |-> SelectSeq(cards, InA)])
        IN  /\ drag.isDragging
            /\ cards' = s.cards
            /\ columns' = s.columns
            /\ lanes' = s.lanes
            /\ last' = [NoOp EXCEPT !.op = "setState", !.ret = TRUE]
            /\ emitted' = IF silent THEN <<>> ELSE <<"state:change">>
            /\ UNCHANGED <<drag, docListeners, gestureLog, preDrag, snapshot, bus, ui>>

StaleNext ==
    \/ PointerDown \/ PointerMove \/ PointerUp \/ PointerCancel
    \/ StaleRemoveColumn \/ StaleRemoveCard \/ StaleLoadState

SpecStale == StaleInit /\ [][StaleNext]_vars

\* C31: when the drag is committed (pointer-up while dragging) and the target
\* column or the dragged card is no longer in the store, no move is applied:
\* the cards are unchanged, state:change is not emitted, and no card that
\* referenced a column of the store references an absent one afterwards.
C31_CommitRechecksStore ==
    [][ (/\ last'.op = "pointerup"
         /\ drag.isDragging
         /\ drag.targetColumn # Null
         /\ \/ FindIndex(columns, drag.targetColumn) = 0
            \/ FindIndex(cards, drag.draggedCard[1]) = 0) =>
            /\ cards' = cards
            /\ Count(emitted', "state:change") = 0
            /\ \A k \in DOMAIN cards' :
                   FindIndex(columns', cards'[k].columnId) = 0 =>
                       \E j \in DOMAIN cards :
                           /\ cards[j].id = cards'[k].id
                           /\ FindIndex(columns, cards[j].columnId) = 0
      ]_vars

\* ---------------------------------------------------------------------------
\* Pointer tolerance, with coordinates one below, at and one beyond tolerance
\* on both axes.
\* ---------------------------------------------------------------------------

TolCoords == {0, Tolerance - 1, Tolerance, Tolerance + 1}

\* pointerdown on a rendered card at a point of TolCoords.
TolPointerDown ==
    \E i \in DOMAIN cards, x \in TolCoords, y \in TolCoords :
        \E r \in {handlePointerDown(drag, docListeners, cards, columns, cards[i].id, x, y)} :
            /\ ui.listening
            /\ RenderedIn(cards[i], columns, lanes) # {}
            /\ drag' = r.drag
            /\ docListeners' = r.doc
            /\ emitted' = <<>>
            /\ gestureLog' = IF Idle THEN <<>> ELSE gestureLog
            /\ preDrag' = IF Idle THEN <<cards, columns, lanes>> ELSE preDrag
            /\ last' = [NoOp EXCEPT !.op = "pointerdown", !.id = cards[i].id,
                                    !.ret = ~Idle]
            /\ UNCHANGED <<cards, columns, lanes, snapshot, bus, ui>>

\* pointermove to a point of TolCoords, over the card's own column or over no
\* column.
TolPointerMove ==
    \E x \in TolCoords, y \in TolCoords, hit \in {Null, "A"} :
        \E r \in {handlePointerMove(drag, x, y, hit)} :
            /\ docListeners
            /\ Len(gestureLog) < MaxLog
            /\ drag' = r.drag
            /\ emitted' = r.emitted
            /\ gestureLog' = gestureLog \o r.emitted
            /\ last' = [NoOp EXCEPT !.op = "pointermove", !.ret = drag.isDragging]
            /\ UNCHANGED <<cards, columns, lanes, docListeners, preDrag, snapshot, bus, ui>>

ToleranceNext == TolPointerDown \/ TolPointerMove \/ PointerUp \/ PointerCancel

SpecTolerance == StaleInit /\ [][ToleranceNext]_vars

\* C32: an armed gesture becomes dragging on exactly the pointer-moves whose
\* |x - startX| > Tolerance or |y - startY| > Tolerance, each axis on its own,
\* strictly, and against the pointer-down coordinates (which a move never
\* changes); a gesture that is dragging stays dragging on every pointer-move.
C32_ToleranceRule ==
    [][ (last'.op = "pointermove" /\ ~Idle) =>
            /\ drag'.startX = drag.startX /\ drag'.startY = drag.startY
            /\ drag.isDragging => drag'.isDragging
            /\ ~drag.isDragging =>
                   (drag'.isDragging <=>
                        \/ Abs(drag'.currentX - drag.startX) > Tolerance
                        \/ Abs(drag'.currentY - drag.startY) > Tolerance)
            /\ Count(emitted', "card:drag:start") =
                   (IF ~drag.isDragging /\ drag'.isDragging THEN 1 ELSE 0)
      ]_vars

\* An armed gesture whose pointer went one below tolerance on both axes and is
\* still armed.
C32_Witness ==
    /\ last.op = "pointermove"
    /\ ~Idle /\ ~drag.isDragging
    /\ Abs(drag.currentX - drag.startX) = Tolerance - 1
    /\ Abs(drag.currentY - drag.startY) = Tolerance - 1

\* ---------------------------------------------------------------------------
\* The target of a drop.
\* ---------------------------------------------------------------------------

\* C33: the target column of a gesture starts as the source column
\* (pointer-down), is replaced by the column a pointer-move resolves while
\* dragging, and is left as it is, together with the placeholder position and
\* without card:drag:over, by a pointer-move that finds no column; a pointer-up
\* while dragging emits card:drag:end and moves the card to that target, the
\* store being unchanged when the target is the source column.
C33_LastValidTarget ==
    [][ /\ (last'.op = "pointerdown" /\ Idle /\ drag'.draggedCard # <<>>) =>
               drag'.targetColumn = drag'.sourceColumn
        /\ (last'.op = "pointermove" /\ ~Idle /\ last'.columnId = Null) =>
               /\ drag'.targetColumn = drag.targetColumn
               /\ ui'.insertIndex = ui.insertIndex
               /\ Count(emitted', "card:drag:over") = 0
        /\ (last'.op = "pointermove" /\ drag'.isDragging /\ last'.columnId # Null) =>
               /\ drag'.targetColumn = last'.columnId
               /\ Count(emitted', "card:drag:over") = 1
        /\ (last'.op = "pointermove" /\ ~Idle) => drag'.sourceColumn = drag.sourceColumn
        /\ (last'.op = "pointerup" /\ drag.isDragging) =>
               LET k == FindIndex(cards, drag.draggedCard[1])
               IN  /\ emitted'[1] = "card:drag:end"
                   /\ IF drag.targetColumn = drag.sourceColumn
                      THEN cards' = cards /\ emitted' = <<"card:drag:end">>
                      ELSE cards'[k].columnId = drag.targetColumn
      ]_vars

\* A drag that resolved column B and then moved over no column: B is still the
\* target.
C33_Witness ==
    /\ last.op = "pointermove"
    /\ last.columnId = Null
    /\ drag.isDragging
    /\ drag.sourceColumn = "A"
    /\ drag.targetColumn = "B"

\* ---------------------------------------------------------------------------
\* findDropTarget's insertion point.  snapshot holds the card elements of the
\* column under the pointer in DOM order, each with the top and height of its
\* bounding rectangle and whether it carries sk-card--dragging.
\* ---------------------------------------------------------------------------

\* Bounds: card elements in the column, and the pointer's clientY.
MaxEls == 3
MaxY == 6

\* A mutant of findDropTarget: a pointer on the midpoint inserts before.
findDropTargetInclusive(els, y) ==
    LET cs == SelectSeq(els, LAMBDA e : ~e.dragging)
        Before(i) == 2 * y <= 2 * cs[i].top + cs[i].height
        hits == {i \in DOMAIN cs : Before(i)}
    IN  IF hits = {}
        THEN [insertIndex |-> Len(cs), insertBefore |-> 0]
        ELSE LET i == CHOOSE i \in hits : \A j \in hits : i <= j
             IN  [insertIndex |-> i - 1, insertBefore |-> cs[i].id]

\* The loop of findDropTarget over '.sk-card:not(.sk-card--dragging)' from
\* element i (counted from 1) on: [insertIndex, insertBefore], insertBefore
\* being the element's card id, 0 for null.  y < rect.top + rect.height / 2
\* is compared doubled.
RECURSIVE InsertionLoop(_, _, _)
InsertionLoop(cs, y, i) ==
    IF i > Len(cs)
    THEN [insertIndex |-> Len(cs), insertBefore |-> 0]
    ELSE IF 2 * y < 2 * cs[i].top + cs[i].height
         THEN [insertIndex |-> i - 1, insertBefore |-> cs[i].id]
         ELSE InsertionLoop(cs, y, i + 1)

\* findDropTarget(x, y) over the column whose card elements are els.
findDropTarget(els, y) ==
    InsertionLoop(SelectSeq(els, LAMBDA e : ~e.dragging), y, 1)

\* The top of the k-th of the elements of heights h stacked from 0.
RECURSIVE TopOf(_, _)
TopOf(h, k) == IF k = 1 THEN 0 ELSE TopOf(h, k - 1) + h[k - 1]

\* The card elements of a column: n cards of heights 1 or 2 stacked from the
\* top of the page, at most one of them being dragged.
Layouts ==
    UNION {{[k \in 1..n |->
               [id |-> k, height |-> h[k], dragging |-> k = g, top |-> TopOf(h, k)]] :
            h \in [1..n -> {1, 2}], g \in 0..n}
           : n \in 0..MaxEls}

\* A drag in progress over a column with any layout.
MidpointInit ==
    /\ cards = <<>>
    /\ columns = InitColumns
    /\ lanes = <<>>
    /\ last = NoOp
    /\ emitted = <<>>
    /\ drag = [InitialDragState EXCEPT !.isDragging = TRUE, !.draggedCard = <<1>>,
                                       !.mirrorElement = TRUE, !.placeholder = TRUE,
                                       !.sourceColumn = "A", !.targetColumn = "A"]
    /\ docListeners = TRUE
    /\ gestureLog = <<>>
    /\ preDrag = <<>>
    /\ snapshot \in Layouts
    /\ bus = EmptyBus
    /\ ui = DefaultUi

\* updateDrag(x, y) over the column: the placeholder goes to the insertion
\* point; last.id is the card of the insert-before reference.
MidpointMove ==
    \E x \in XCoords, y \in 0..MaxY :
        \E r \in {findDropTarget(snapshot, y)} :
            /\ drag' = [drag EXCEPT !.currentX = x, !.currentY = y]
            /\ ui' = [ui EXCEPT !.insertIndex = r.insertIndex]
            /\ last' = [NoOp EXCEPT !.op = "findDropTarget", !.id = r.insertBefore,
                                    !.ret = TRUE]
            /\ emitted' = <<"card:drag:over">>
            /\ UNCHANGED <<cards, columns, lanes, docListeners, gestureLog, preDrag,
                           snapshot, bus>>

SpecMidpoint == MidpointInit /\ [][MidpointMove]_vars

\* C34: the insertion index for a pointer at y is the number of cards of the
\* column, the dragged one excluded, that come before the first such card whose
\* midpoint is strictly greater than y, that card being the insert-before
\* reference; it is the number of those cards, with no reference, when no card
\* has its midpoint below the pointer.  x plays no part.
C34_MidpointRule ==
    last.op = "findDropTarget" =>
        LET y == drag.currentY
            others == {k \in DOMAIN snapshot : ~snapshot[k].dragging}
            below == {k \in others : 2 * snapshot[k].top + snapshot[k].height > 2 * y}
        IN  IF below = {}
            THEN ui.insertIndex = Cardinality(others) /\ last.id = 0
            ELSE \E k \in below :
                    /\ \A j \in below : k <= j
                    /\ ui.insertIndex = Cardinality({j \in others : j < k})
                    /\ last.id = snapshot[k].id

\* The pointer is exactly on the midpoint of the only other card, whose
\* element comes after the dragged card's: the insertion point is the end.
C34_Witness ==
    /\ last.op = "findDropTarget"
    /\ Len(snapshot) = 2
    /\ snapshot[1].dragging
    /\ 2 * drag.currentY = 2 * snapshot[2].top + snapshot[2].height
    /\ ui.insertIndex = 1
    /\ last.id = 0

\* ---------------------------------------------------------------------------
\* The elements the drag engine puts in the document.  ui.mirrors counts the
\* mirror elements attached to document.body, ui.dragging is the set of cards
\* whose element carries sk-card--dragging, ui.hover the set of columns whose
\* element carries the hover class; drag.mirrorElement and drag.placeholder
\* tell whether the engine's state refers to one.
\* ---------------------------------------------------------------------------

\* Bound: mirror elements in the document beyond which no drag is started.
MaxMirrors == 2

\* createMirror and the dragging class of startDrag, for a move that took the
\* state d to d2.
startDragElements(u, d, d2) ==
    IF ~d.isDragging /\ d2.isDragging
    THEN [u EXCEPT !.mirrors = @ + 1, !.dragging = @ \cup {d.draggedCard[1]}]
    ELSE u

\* updateDropTarget: the hover class is taken from every column and given to
\* the target, for a move that left the state d2 over column hit.
updateDropTargetElements(u, d2, hit) ==
    IF d2.isDragging /\ d2.placeholder /\ hit # Null
    THEN [u EXCEPT !.hover = {hit}]
    ELSE u

\* A mutant of cleanupElements: the hover classes are left.
cleanupElementsKeepHover(u, d, events) ==
    LET rendered == \E k \in DOMAIN events : events[k] = "card:drag:end"
        marks == IF rendered THEN {} ELSE u.dragging
    IN  [u EXCEPT !.mirrors = IF d.mirrorElement THEN @ - 1 ELSE @,
                  !.dragging = IF d.draggedCard = <<>> THEN marks
                               ELSE marks \ {d.draggedCard[1]},
                  !.hover = IF rendered THEN {} ELSE @]

\* The board's render in its card:drag:end subscriber replaces the elements of
\* the container; cleanup then removes the mirror and the placeholder the state
\* refers to, the dragging class of state.draggedElement and the hover class
\* of every column.
cleanupElements(u, d, events) ==
    LET rendered == \E k \in DOMAIN events : events[k] = "card:drag:end"
        marks == IF rendered THEN {} ELSE u.dragging
    IN  [u EXCEPT !.mirrors = IF d.mirrorElement THEN @ - 1 ELSE @,
                  !.dragging = IF d.draggedCard = <<>> THEN marks
                               ELSE marks \ {d.draggedCard[1]},
                  !.hover = {}]

\* cleanup(): [drag, doc, ui, emitted].
cleanup(d, doc, u) ==
    [drag |-> InitialDragState, doc |-> FALSE, ui |-> cleanupElements(u, d, <<>>),
     emitted |-> <<>>]

\* destroy(): detachEventListeners, then cleanup.  ui.destroyed records that
\* destroy() has been called; the manager keeps no such field.
destroy(d, doc, u) ==
    LET detached == detachEventListeners(u)
    IN  cleanup(d, detached.doc, [detached.ui EXCEPT !.destroyed = TRUE])

\* pointermove (document listener), the elements included.
MirrorPointerMove ==
    \E x \in XCoords, y \in YCoords, hit \in {Null} \cup {columns[i].id : i \in DOMAIN columns} :
        \E r \in {handlePointerMove(drag, x, y, hit)} :
            /\ docListeners
            /\ Len(gestureLog) < MaxLog
            /\ ui.mirrors < MaxMirrors
            /\ drag' = r.drag
            /\ ui' = updateDropTargetElements(startDragElements(ui, drag, r.drag),
                                              r.drag, hit)
            /\ emitted' = r.emitted
            /\ gestureLog' = gestureLog \o r.emitted
            /\ last' = [NoOp EXCEPT !.op = "pointermove", !.ret = drag.isDragging]
            /\ UNCHANGED <<cards, columns, lanes, docListeners, preDrag, snapshot, bus>>

\* pointerup (document listener), the elements included.
MirrorPointerUp ==
    \E r \in {handlePointerUp(drag, cards)} :
        /\ docListeners
        /\ drag' = r.drag
        /\ docListeners' = r.doc
        /\ cards' = r.cards
        /\ ui' = cleanupElements(ui, drag, r.emitted)
        /\ emitted' = r.emitted
        /\ gestureLog' = gestureLog \o r.emitted
        /\ last' = [NoOp EXCEPT !.op = "pointerup", !.ret = drag.isDragging]
        /\ UNCHANGED <<columns, lanes, preDrag, snapshot, bus>>

\* pointercancel (document listener), the elements included.
MirrorPointerCancel ==
    \E r \in {handlePointerCancel(drag, docListeners, cards)} :
        /\ docListeners
        /\ drag' = r.drag
        /\ docListeners' = r.doc
        /\ cards' = r.cards
        /\ ui' = IF drag.isDragging THEN cleanupElements(ui, drag, r.emitted) ELSE ui
        /\ emitted' = r.emitted
        /\ gestureLog' = gestureLog \o r.emitted
        /\ last' = [NoOp EXCEPT !.op = "pointercancel", !.ret = drag.isDragging]
        /\ UNCHANGED <<columns, lanes, preDrag, snapshot, bus>>

MirrorNext == PointerDown \/ MirrorPointerMove \/ MirrorPointerUp \/ MirrorPointerCancel

SpecMirror == DragInit /\ [][MirrorNext]_vars

\* C35: a mirror element and a placeholder exist only while the gesture is
\* dragging, at most one mirror is attached to the document, and when the
\* engine is idle no mirror, placeholder or dragging marker remains.
C35_SurrogatesOnlyWhileDragging ==
    /\ (ui.mirrors > 0 \/ drag.placeholder \/ drag.mirrorElement) => drag.isDragging
    /\ ui.mirrors <= 1
    /\ Idle => (ui.mirrors = 0 /\ ~drag.placeholder /\ ui.dragging = {})

\* dndManager.destroy()
Destroy ==
    \E r \in {destroy(drag, docListeners, ui)} :
        /\ drag' = r.drag
        /\ docListeners' = r.doc
        /\ ui' = r.ui
        /\ emitted' = r.emitted
        /\ last' = [NoOp EXCEPT !.op = "destroy", !.ret = drag.isDragging]
        /\ UNCHANGED <<cards, columns, lanes, gestureLog, preDrag, snapshot, bus>>

CleanupNext == MirrorNext \/ Destroy

SpecCleanup == DragInit /\ [][CleanupNext]_vars

\* C36: after every terminal transition (pointer-up, pointer-cancel while
\* dragging, destroy) the drag state is the initial state, no column carries
\* the hover class, and the document listeners are detached; cleanup run again
\* in that state changes nothing and emits nothing.
C36_CleanupComplete ==
    [][ (\/ last'.op = "pointerup"
         \/ last'.op = "pointercancel" /\ drag.isDragging
         \/ last'.op = "destroy") =>
            /\ drag' = InitialDragState
            /\ ui'.hover = {}
            /\ ~docListeners'
            /\ cleanup(drag', docListeners', ui') =
                   [drag |-> drag', doc |-> docListeners', ui |-> ui', emitted |-> <<>>]
      ]_vars

\* A drag that had highlighted a column was cancelled.
C36_Witness ==
    /\ last.op = "pointercancel" /\ last.ret
    /\ Count(gestureLog, "card:drag:over") > 0
    /\ Idle
    /\ ui.hover = {}

\* ------------------------------------------------ entities handed out

\* StateManager.getCard(cardId): the element of state.cards itself, or null
\* (an empty value).
getCard(cs, cardId) ==
    LET i == FindIndex(cs, cardId)
    IN  IF i = 0 THEN [value |-> <<>>, shared |-> FALSE]
        ELSE [value |-> cs[i], shared |-> TRUE]

\* What a caller does to a card it holds: write columnId or order.
EntityMutations(card) ==
    {[card EXCEPT !.columnId = c] : c \in ColumnIds}
    \cup {[card EXCEPT !.order = o] : o \in 0..1}

\* const card = board.addCard(card, {index}): StateManager.addCard returns the
\* object it pushed, and the board returns it unchanged.
AliasAddCard ==
    \E id \in 1..MaxSnapCards, columnId \in ColumnIds, index \in Indexes :
        /\ Len(cards) < MaxSnapCards
        /\ FindIndex(cards, id) = 0
        /\ \E cs \in {addCard(cards, [id |-> id, columnId |-> columnId,
                                      laneId |-> Undefined, order |-> NoNumber], index)} :
            /\ cards' = cs
            /\ snapshot' = getCard(cs, id)
        /\ last' = [op |-> "addCard", id |-> id, columnId |-> columnId,
                    laneId |-> Undefined, index |-> index, ret |-> TRUE]
        /\ emitted' = <<>>
        /\ UNCHANGED <<columns, lanes, drag, docListeners, gestureLog, preDrag, bus, ui>>

\* const card = board.getStateManager().getCard(cardId)
GetCard ==
    \E id \in 1..MaxSnapCards :
        /\ snapshot' = getCard(cards, id)
        /\ last' = [NoOp EXCEPT !.op = "getCard", !.id = id,
                                !.ret = FindIndex(cards, id) # 0]
        /\ emitted' = <<>>
        /\ UNCHANGED <<cards, columns, lanes, drag, docListeners, gestureLog, preDrag,
                       bus, ui>>

\* The caller writes into the card it holds; an object that is the store's own
\* changes in the store too.
MutateEntity ==
    /\ snapshot # <<>>
    /\ snapshot.value # <<>>
    /\ \E v \in EntityMutations(snapshot.value) :
        /\ v # snapshot.value
        /\ snapshot' = [snapshot EXCEPT !.value = v]
        /\ cards' = IF snapshot.shared
                    THEN [cards EXCEPT ![FindIndex(cards, v.id)] = v]
                    ELSE cards
    /\ last' = [NoOp EXCEPT !.op = "mutateEntity", !.id = snapshot.value.id, !.ret = TRUE]
    /\ emitted' = <<>>
    /\ UNCHANGED <<columns, lanes, drag, docListeners, gestureLog, preDrag, bus, ui>>

AliasNext == AliasAddCard \/ GetCard \/ MutateEntity

SpecAlias == StoreInit /\ [][AliasNext]_vars

\* C37: writing columnId or order into a card returned by getCard or by
\* addCard changes neither the store's cards nor what getCards returns.
C37_EntitiesAreSnapshots ==
    [][ last'.op = "mutateEntity" =>
          /\ cards' = cards
          /\ \A c \in ColumnIds : getCards(cards', c, Undefined) = getCards(cards, c, Undefined)
      ]_vars

\* ------------------------------------------------ subscription during dispatch

\* What a subscribed function of this specification does when invoked: return,
\* subscribe another function to the event, or unsubscribe and re-subscribe
\* itself.
ReentrantBehaviours == {"return", "subscribe", "resubscribe"}

\* bus.on(event, fn), for a function that is not subscribed.
ReentrantOn ==
    \E fn \in Fns, behaviour \in ReentrantBehaviours, event \in BusEvents :
        /\ ~Subscribed(bus, fn)
        /\ bus' = [on(bus, [fn |-> fn, once |-> FALSE, behaviour |-> behaviour,
                            event |-> event])
                     EXCEPT !.calls[fn] = 0,
                            !.subscribed = Append(@, fn),
                            !.registered[fn] = [kind |-> "on", behaviour |-> behaviour]]
        /\ last' = [NoOp EXCEPT !.op = "on", !.id = fn, !.ret = TRUE]
        /\ NoBoard

\* bus.emit(event); the invocations are counted from this emit on.
ReentrantEmit ==
    \E event \in BusEvents :
        \E r \in {emit([bus EXCEPT !.calls = [fn \in DOMAIN @ |-> 0]], event)} :
            /\ bus' = StillSubscribed(r)
            /\ last' = [NoOp EXCEPT !.op = "emit", !.ret = TRUE]
            /\ NoBoard

ReentrantNext == ReentrantOn \/ BusOff \/ ReentrantEmit

SpecReentrant == StoreInit /\ [][ReentrantNext]_vars

\* C38: an emit invokes only functions that were subscribed to the event when
\* it started, and makes at most as many invocations as there were subscribed
\* handlers then.
C38_DispatchIsSnapshot ==
    [][ last'.op = "emit" =>
          /\ \A k \in DOMAIN bus'.log :
                \E i \in DOMAIN bus.handlers :
                    /\ bus.handlers[i].event = bus'.event
                    /\ bus.handlers[i].fn = bus'.log[k]
          /\ Len(bus'.log) <= listenerCount(bus, bus'.event)
      ]_vars

\* ------------------------------------------------ listeners of the drag engine

\* dndManager.setReadonly(readonly)
ListenerSetReadonly ==
    \E readonly \in BOOLEAN :
        \E r \in {setReadonly(ui, docListeners, readonly)} :
            /\ ui' = r.ui
            /\ docListeners' = r.doc
            /\ last' = [NoOp EXCEPT !.op = "setReadonly", !.ret = readonly]
            /\ emitted' = <<>>
            /\ UNCHANGED <<cards, columns, lanes, drag, gestureLog, preDrag, snapshot, bus>>

\* dndManager.setDraggable(draggable)
ListenerSetDraggable ==
    \E draggable \in BOOLEAN :
        \E r \in {setDraggable(ui, docListeners, draggable)} :
            /\ ui' = r.ui
            /\ docListeners' = r.doc
            /\ last' = [NoOp EXCEPT !.op = "setDraggable", !.ret = draggable]
            /\ emitted' = <<>>
            /\ UNCHANGED <<cards, columns, lanes, drag, gestureLog, preDrag, snapshot, bus>>

ListenerNext ==
    \/ ListenerSetReadonly \/ ListenerSetDraggable
    \/ PointerDown \/ MirrorPointerMove \/ MirrorPointerUp \/ MirrorPointerCancel
    \/ Destroy

SpecListeners == DragInit /\ [][ListenerNext]_vars

\* C39: the container's pointerdown listener is attached exactly when the
\* engine is not read-only, is draggable and has not been destroyed; the
\* document's listeners are attached exactly when a gesture is armed or
\* dragging.
C39_ListenerInvariant ==
    /\ ui.listening <=> (~ui.dndReadonly /\ ui.dndDraggable /\ ~ui.destroyed)
    /\ docListeners <=> ~Idle

\* ------------------------------------------------ arming and id values

\* C40: a pointer-down on the element of a stored card whose column is in the
\* store arms the gesture with that card, whatever string or number its id and
\* its column's id are, the number 0 included.
C40_ArmingComplete ==
    [][ last'.op = "pointerdown" =>
          LET k == last'.index
          IN  FindIndex(columns, cards[k].columnId) # 0 =>
                  /\ last'.ret
                  /\ last'.id = k
      ]_vars

====
